---- MODULE Spec2Model ----
(***************************************************************************)
(* State-machine model of the two subscription transports of the bosbase  *)
(* C++ SDK: RealtimeService (SSE, src/src/realtime.cpp) and PubSubService  *)
(* (WebSocket, src/src/pubsub.cpp).  Each transport is one application     *)
(* thread calling the public operations plus the transport's background    *)
(* thread; every action is one step of one thread between two points       *)
(* where the other thread can observe or change shared state.              *)
(***************************************************************************)
EXTENDS Integers, Sequences, FiniteSets, TLC

(***************************************************************************)
(* Bounds of the exploration.                                              *)
(***************************************************************************)
MaxOps == 3
MaxListeners == 2
MaxConns == 2
MaxEvents == 2
MaxDispatchSubs == 2

(***************************************************************************)
(* Inputs.  A topic is a string, modelled as its sequence of characters so *)
(* that prefix matching is computed; 0 stands for '/'.                     *)
(*   T1 = "a/x"   T2 = "ab/x"   prefixes "a" and "ab"                      *)
(***************************************************************************)
T1 == <<1, 0, 9>>
T2 == <<1, 2, 0, 9>>
Topics == {T1, T2}
Prefixes == {<<1>>, <<1, 2>>}
ClientIds == {"", "c1"}
PostResults == {"ok", "abort", "error"}

\* A listener is the std::function passed to one subscribe call: id is the
\* number of the call that registered it, type the typeid of the callable
\* it wraps (two lambdas written at different places differ in type, two
\* function pointers of one signature or two copies of one lambda do not).
ListenerTypes == {"X", "Y"}

\* What the callable does when the dispatcher invokes it: it returns, it
\* throws, it records the event it was given, it calls unsubscribe(topic) for
\* the topic of the event, or it calls the closure that subscribe returned
\* for it.
Behaviours == {"return", "throw", "record", "unsubscribe", "closure"}

\* listeners that do nothing that the transport can observe
PlainCallables == {[type |-> ty, does |-> "return"] : ty \in ListenerTypes}

\* one callable per behaviour, each of its own type
DispatchCallables ==
    {[type |-> "R", does |-> "record"], [type |-> "T", does |-> "throw"],
     [type |-> "U", does |-> "unsubscribe"], [type |-> "C", does |-> "closure"]}

NoListener == [id |-> 0, type |-> "none", does |-> "return"]
AllListeners ==
    {[id |-> i, type |-> f.type, does |-> f.does] :
        i \in 1 .. MaxOps, f \in PlainCallables \cup DispatchCallables}

\* std::function::target_type()
TargetType(l) == l.type

VARIABLES
    rtSubs,       \* RealtimeService::subscriptions_ : topic -> listener list
    rtClientId,   \* RealtimeService::client_id_
    rtReady,      \* RealtimeService::ready_
    rtStop,       \* RealtimeService::stop_
    rtMutex,      \* RealtimeService::mutex_ (recursive): owner and depth
    rtApp,        \* the application thread's position in a RealtimeService call
    rtW,          \* RealtimeService::worker_ : position of run() and its locals
    rtPost,       \* the most recent POST sent to the confirmation endpoint
    rtHookSet,    \* whether the application assigned onDisconnect
    rtClosures,   \* unsubscribe closures returned by subscribe: <<topic, listener>>
    rtOps,        \* number of application calls made so far
    rtCrashed,    \* the process was terminated by an exception on the worker
    psSubs,       \* PubSubService::subscriptions_ : topic -> listener list
    psReady,      \* PubSubService::ready_
    psManual,     \* PubSubService::manual_close_
    psMutex,      \* PubSubService::mutex_ (std::mutex): its owner
    psHdl,        \* PubSubService::hdl_ : the connection it refers to, 0 if none
    psThread,     \* PubSubService::thread_ : "none", "running" or "finished"
    psStopped,    \* the io_service of client_ is stopped: run() returns at once
    psConn,       \* the state of each connection created by get_connection
    psApp,        \* the application thread's position in a PubSubService call
    psIo,         \* the I/O thread: the handler it runs and the handler's locals
    psSent,       \* topics with a subscribe envelope sent and no later unsubscribe
    psSrv,        \* per connection, the topics the server holds for it
    psClosures,   \* unsubscribe closures returned by subscribe: <<topic, listener>>
    psOps,        \* number of application calls made so far
    psPubs,       \* the publish envelopes the server received, in order
    psCrashed,    \* the process was terminated by an exception on the I/O thread
    wire,         \* history: the events with a payload received, in arrival order
    delivered,    \* history: per recording listener, the events it was invoked with
    pWhole,       \* the bytes of one SSE stream, as the server sends them
    pFed,         \* how many of them libcurl has handed to realtimeWrite
    pReads,       \* history: in how many calls of realtimeWrite
    pSt,          \* realtimeWrite's static locals and the frames it has emitted
    auth,         \* the AuthStore: token_, listeners_ and the save() in progress
    sentAuth,     \* the credential of the most recent connection attempt
    pConn,        \* the number of streams the worker has opened after the first
    rtApp2,       \* a second application thread inside unsubscribe(topic)
    p2,           \* the stream of a second RealtimeService and its frames
    auth2         \* a second thread inside AuthStore::save()

rtVars == <<rtSubs, rtClientId, rtReady, rtStop, rtMutex, rtApp, rtW, rtPost,
            rtHookSet, rtClosures, rtOps, rtCrashed>>

psVars == <<psSubs, psReady, psManual, psMutex, psHdl, psThread, psStopped,
            psConn, psApp, psIo, psSent, psPubs, psSrv, psClosures, psOps,
            psCrashed>>

\* what a test observes of the transport it exercises
obsVars == <<wire, delivered>>

\* the SSE parser, and what the transports share with the rest of the client
moreVars == <<pConn, rtApp2, p2, auth2>>
auxVars ==
    <<pWhole, pFed, pReads, pSt, auth, sentAuth, pConn, rtApp2, p2, auth2>>

vars == <<rtVars, psVars, obsVars, auxVars>>

(***************************************************************************)
(* Pure helpers.                                                           *)
(***************************************************************************)
\* std::string::rfind(prefix, 0) == 0
StartsWith(t, p) == Len(p) <= Len(t) /\ SubSeq(t, 1, Len(p)) = p

\* topics whose listener list is not empty (submitSubscriptions' loop)
ActiveTopics(subs) == {t \in DOMAIN subs : subs[t] # <<>>}

\* clear() in the place of erase(key)
EraseTopicClear(subs, t) == [x \in {} |-> <<>>]

\* std::map::erase(key)
EraseTopic(subs, t) == [x \in (DOMAIN subs) \ {t} |-> subs[x]]

\* subscriptions_[topic].push_back(callback)
PushListener(subs, t, l) ==
    [x \in (DOMAIN subs) \cup {t} |->
        IF x = t THEN (IF t \in DOMAIN subs THEN Append(subs[t], l) ELSE <<l>>)
        ELSE subs[x]]

RECURSIVE RemoveSameType(_, _)
\* std::remove_if(fn.target_type() == listener.target_type()) followed by erase
RemoveSameType(vec, l) ==
    IF vec = <<>> THEN <<>>
    ELSE IF TargetType(Head(vec)) = TargetType(l)
         THEN RemoveSameType(Tail(vec), l)
         ELSE <<Head(vec)>> \o RemoveSameType(Tail(vec), l)

\* the closure body without the erase of an emptied entry (lines 77-79)
RemoveListenerKeepEntry(subs, t, l) ==
    IF t \notin DOMAIN subs THEN subs
    ELSE [subs EXCEPT ![t] = RemoveSameType(subs[t], l)]

\* the body of the unsubscribe closure on the registry
RemoveListener(subs, t, l) ==
    IF t \notin DOMAIN subs THEN subs
    ELSE IF RemoveSameType(subs[t], l) = <<>> THEN EraseTopic(subs, t)
         ELSE [subs EXCEPT ![t] = RemoveSameType(subs[t], l)]

\* the erase loop leaving after its first erase
ErasePrefixFirstOnly(subs, p) ==
    IF \E t \in DOMAIN subs : StartsWith(t, p)
    THEN EraseTopic(subs, CHOOSE t \in DOMAIN subs : StartsWith(t, p))
    ELSE subs

\* the erase loop of unsubscribeByPrefix
ErasePrefix(subs, p) ==
    [x \in {t \in DOMAIN subs : ~StartsWith(t, p)} |-> subs[x]]

\* the lookup with a key the payload does not hold: value() falls back to
\* the default
PayloadClientIdWrongKey(payload) == ""

\* payload.value("clientId", std::string{})
PayloadClientId(payload) == payload.clientId

EmptySubs == [x \in {} |-> <<>>]
NoPost == [sent |-> FALSE, clientId |-> "", subs |-> {}]
FreeMutex == [owner |-> "none", depth |-> 0]
\* post: how the POST of the call in progress ended ("none": no POST yet)
IdleApp == [pc |-> "idle", kind |-> "none", topic |-> <<>>, lis |-> NoListener,
            active |-> {}, post |-> "none"]
\* data: the payload of the event being dispatched (0: none); i: the index
\* of the dispatch loop; lres: how the last call made by a listener ended
NoWorker == [pc |-> "none", payload |-> [clientId |-> ""], active |-> {},
             listeners |-> <<>>, topic |-> <<>>, greeted |-> FALSE,
             chk |-> FALSE, sent |-> NoPost, data |-> 0, i |-> 0,
             lres |-> "none"]

(***************************************************************************)
(* AuthStore.                                                              *)
(***************************************************************************)
\* tokens: none, two unexpired JWTs, and a JWT whose "exp" has passed
AuthTokens == {"", "t1", "t2", "stale"}

\* isValid(), lines 14-20, with isJwtValid(), lines 61-91
isValid(tok) == tok # "" /\ tok # "stale"

\* the store after construction; write is the <<token, record>> that a
\* save() in progress is assigning, i the position of its loop of line 31
AuthIdle == [token |-> "", record |-> "none", write |-> <<>>,
             listeners |-> <<>>, callbacks |-> <<>>, i |-> 0,
             notified |-> <<>>, caught |-> 0]

\* addListener(), lines 43-46
AuthAddListener(does) ==
    /\ auth.write = <<>>
    /\ Len(auth.listeners) < MaxListeners
    /\ auth' = [auth EXCEPT !.listeners =
                   Append(@, [id |-> Len(@) + 1, does |-> does])]
    /\ UNCHANGED <<rtVars, psVars, obsVars, pWhole, pFed, pReads, pSt, sentAuth,
                   moreVars>>

\* save(), lines 22-26: the lock is taken and the members are being
\* assigned; the call is made by the application thread
AuthSaveBegin(tok, rec) ==
    /\ auth.write = <<>>
    /\ auth.i = 0
    /\ rtApp.pc = "idle"
    /\ psApp.pc = "idle"
    /\ auth' = [auth EXCEPT !.write = <<tok, rec>>]
    /\ UNCHANGED <<rtVars, psVars, obsVars, pWhole, pFed, pReads, pSt, sentAuth,
                   moreVars>>

\* save(), lines 26-29: the members are assigned, the listeners are copied
\* and the lock is released
AuthSaveEnd ==
    /\ auth.write # <<>>
    /\ auth' = [auth EXCEPT !.token = auth.write[1],
                            !.record = auth.write[2],
                            !.write = <<>>,
                            !.callbacks = auth.listeners,
                            !.i = IF auth.listeners = <<>> THEN 0 ELSE 1,
                            !.notified = <<>>,
                            !.caught = 0]
    /\ UNCHANGED <<rtVars, psVars, obsVars, pWhole, pFed, pReads, pSt, sentAuth,
                   moreVars>>

\* the one that escapes the loop at the first exception
AuthNotifyAbort ==
    /\ auth.i > 0
    /\ LET cb == auth.callbacks[auth.i]
           threw == cb.does = "throw"
       IN auth' = [auth EXCEPT
              !.notified = Append(@, <<cb.id, auth.token, auth.record>>),
              !.caught = @ + (IF threw THEN 1 ELSE 0),
              !.i = IF threw \/ auth.i = Len(auth.callbacks) THEN 0 ELSE @ + 1]
    /\ UNCHANGED <<rtVars, psVars, obsVars, pWhole, pFed, pReads, pSt, sentAuth,
                   moreVars>>

\* save(), lines 31-36: one pass of the loop, outside the lock; the listener
\* is called with the members, and what it throws is caught and dropped
AuthNotify ==
    /\ auth.i > 0
    /\ LET cb == auth.callbacks[auth.i]
       IN auth' = [auth EXCEPT
              !.notified = Append(@, <<cb.id, auth.token, auth.record>>),
              !.caught = @ + (IF cb.does = "throw" THEN 1 ELSE 0),
              !.i = IF auth.i = Len(auth.callbacks) THEN 0 ELSE @ + 1]
    /\ UNCHANGED <<rtVars, psVars, obsVars, pWhole, pFed, pReads, pSt, sentAuth,
                   moreVars>>

(***************************************************************************)
(* RealtimeService: application thread.                                    *)
(***************************************************************************)
RtInit ==
    /\ rtSubs = EmptySubs
    /\ rtClientId = ""
    /\ rtReady = FALSE
    /\ rtStop = FALSE
    /\ rtMutex = FreeMutex
    /\ rtApp = IdleApp
    /\ rtW = NoWorker
    /\ rtPost = NoPost
    /\ rtHookSet \in BOOLEAN
    /\ rtClosures = {}
    /\ rtOps = 0
    /\ rtCrashed = FALSE

\* The two transports are separate objects that share no state: a run
\* exercises one of them.  The application thread makes one call at a
\* time, of a transport or of AuthStore::save().
RtCanCall ==
    /\ ~rtCrashed /\ rtApp.pc = "idle" /\ rtOps < MaxOps /\ psOps = 0
    /\ auth.write = <<>> /\ auth.i = 0
RtAppAt(pc) == ~rtCrashed /\ rtApp.pc = pc

\* std::lock_guard<std::recursive_mutex> taken by the application thread
RtAppLock == [owner |-> "app", depth |-> rtMutex.depth + 1]

\* ensureThread(): start run() unless worker_ is joinable
RtEnsureThread ==
    IF rtW.pc = "none"
    THEN /\ rtStop' = FALSE
         /\ rtW' = [NoWorker EXCEPT !.pc = "w_loop"]
    ELSE UNCHANGED <<rtStop, rtW>>

\* the call returns: every lock_guard of the call is released
RtFinish ==
    /\ rtApp' = IdleApp
    /\ rtMutex' = FreeMutex

\* the call throws: the exception is in flight, no lock_guard released yet
RtThrow ==
    /\ rtApp' = [rtApp EXCEPT !.pc = "thrown"]
    /\ UNCHANGED rtMutex

\* where a call continues after submitSubscriptions() returned
RtAfterSubmit(kind) == IF kind = "subscribe" THEN "ret" ELSE "empty"

\* subscribe(), lines 27-29: lock, push_back, ensureThread
RtCallSubscribe(t, ty, b) ==
    /\ RtCanCall
    /\ rtMutex.owner # "worker"
    /\ (t \in DOMAIN rtSubs => Len(rtSubs[t]) < MaxListeners)
    /\ rtMutex' = RtAppLock
    /\ rtSubs' = PushListener(rtSubs, t,
                              [id |-> rtOps + 1, type |-> ty, does |-> b])
    /\ RtEnsureThread
    /\ rtApp' = [IdleApp EXCEPT !.pc = "wait", !.kind = "subscribe",
                                !.topic = t,
                                !.lis = [id |-> rtOps + 1, type |-> ty,
                                         does |-> b]]
    /\ rtOps' = rtOps + 1
    /\ UNCHANGED <<rtClientId, rtReady, rtPost, rtHookSet, rtClosures,
                   rtCrashed>>
    /\ UNCHANGED <<psVars, auxVars, obsVars>>

\* ensureConnected() called by the application, lines 87-88
RtCallEnsureConnected ==
    /\ RtCanCall
    /\ RtEnsureThread
    /\ rtApp' = [IdleApp EXCEPT !.pc = "wait", !.kind = "ensureConnected"]
    /\ rtOps' = rtOps + 1
    /\ UNCHANGED <<rtSubs, rtClientId, rtReady, rtMutex, rtPost, rtHookSet,
                   rtClosures, rtCrashed>>
    /\ UNCHANGED <<psVars, auxVars, obsVars>>

\* ensureConnected(), line 89: the polling loop sees ready_
RtWaitReady ==
    /\ RtAppAt("wait")
    /\ rtReady
    /\ IF rtApp.kind = "subscribe"
       THEN rtApp' = [rtApp EXCEPT !.pc = "chk"] /\ UNCHANGED rtMutex
       ELSE RtFinish
    /\ UNCHANGED <<rtSubs, rtClientId, rtReady, rtStop, rtW, rtPost,
                   rtHookSet, rtClosures, rtOps, rtCrashed>>
    /\ UNCHANGED <<psVars, auxVars, obsVars>>

\* ensureConnected(), lines 90-94: the timeout elapses first and
\* ClientResponseError is thrown through the caller
RtWaitTimeout ==
    /\ RtAppAt("wait")
    /\ ~rtReady
    /\ RtThrow
    /\ UNCHANGED <<rtSubs, rtClientId, rtReady, rtStop, rtW, rtPost,
                   rtHookSet, rtClosures, rtOps, rtCrashed>>
    /\ UNCHANGED <<psVars, auxVars, obsVars>>

\* submitSubscriptions() without the test of line 258
RtSubmitCheckNoTest ==
    /\ RtAppAt("chk")
    /\ rtApp' = IF ActiveTopics(rtSubs) = {}
                THEN [rtApp EXCEPT !.pc = RtAfterSubmit(rtApp.kind)]
                ELSE [rtApp EXCEPT !.pc = "post",
                                   !.active = ActiveTopics(rtSubs)]
    /\ UNCHANGED <<rtSubs, rtClientId, rtReady, rtStop, rtMutex, rtW, rtPost,
                   rtHookSet, rtClosures, rtOps, rtCrashed>>
    /\ UNCHANGED <<psVars, auxVars, obsVars>>

\* submitSubscriptions(), lines 258-266: the ready/ClientId test, then the
\* snapshot under the lock.  Only this thread writes the registry, so the
\* snapshot is the same wherever it is taken before the POST.
RtSubmitCheck ==
    /\ RtAppAt("chk")
    /\ rtApp' = IF ~rtReady \/ rtClientId = "" \/ ActiveTopics(rtSubs) = {}
                THEN [rtApp EXCEPT !.pc = RtAfterSubmit(rtApp.kind)]
                ELSE [rtApp EXCEPT !.pc = "post",
                                   !.active = ActiveTopics(rtSubs)]
    /\ UNCHANGED <<rtSubs, rtClientId, rtReady, rtStop, rtMutex, rtW, rtPost,
                   rtHookSet, rtClosures, rtOps, rtCrashed>>
    /\ UNCHANGED <<psVars, auxVars, obsVars>>

\* submitSubscriptions() with a catch that rethrows every error
RtSubmitPostRethrowAll ==
    /\ RtAppAt("post")
    /\ rtPost' = [sent |-> TRUE, clientId |-> rtClientId, subs |-> rtApp.active]
    /\ \E r \in PostResults :
          IF r # "ok"
          THEN /\ rtApp' = [rtApp EXCEPT !.pc = "thrown", !.post = r]
               /\ UNCHANGED rtMutex
          ELSE /\ rtApp' = [rtApp EXCEPT !.pc = RtAfterSubmit(rtApp.kind),
                                         !.active = {}, !.post = r]
               /\ UNCHANGED rtMutex
    /\ UNCHANGED <<rtSubs, rtClientId, rtReady, rtStop, rtW, rtHookSet,
                   rtClosures, rtOps, rtCrashed>>
    /\ UNCHANGED <<psVars, auxVars, obsVars>>

\* submitSubscriptions(), lines 267-280: the POST and its outcome; an abort
\* is swallowed, any other failure is rethrown to the caller
RtSubmitPost ==
    /\ RtAppAt("post")
    /\ rtPost' = [sent |-> TRUE, clientId |-> rtClientId, subs |-> rtApp.active]
    /\ \E r \in PostResults :
          IF r = "error"
          THEN /\ rtApp' = [rtApp EXCEPT !.pc = "thrown", !.post = r]
               /\ UNCHANGED rtMutex
          ELSE /\ rtApp' = [rtApp EXCEPT !.pc = RtAfterSubmit(rtApp.kind),
                                         !.active = {}, !.post = r]
               /\ UNCHANGED rtMutex
    /\ UNCHANGED <<rtSubs, rtClientId, rtReady, rtStop, rtW, rtHookSet,
                   rtClosures, rtOps, rtCrashed>>
    /\ UNCHANGED <<psVars, auxVars, obsVars>>

\* an exception leaves the call (lines 93 and 279): the stack is unwound,
\* every lock_guard of the call is released, the caller sees the error
RtUnwind ==
    /\ RtAppAt("thrown")
    /\ RtFinish
    /\ UNCHANGED <<rtSubs, rtClientId, rtReady, rtStop, rtW, rtPost,
                   rtHookSet, rtClosures, rtOps, rtCrashed>>
    /\ UNCHANGED <<psVars, auxVars, obsVars>>

\* subscribe(), lines 32-34: the closure is returned
RtSubscribeReturn ==
    /\ RtAppAt("ret")
    /\ rtClosures' = rtClosures \cup {<<rtApp.topic, rtApp.lis>>}
    /\ RtFinish
    /\ UNCHANGED <<rtSubs, rtClientId, rtReady, rtStop, rtW, rtPost,
                   rtHookSet, rtOps, rtCrashed>>
    /\ UNCHANGED <<psVars, auxVars, obsVars>>

\* unsubscribe(topic), lines 38-45: erase under the lock, lock released
RtCallUnsubscribe(t) ==
    /\ RtCanCall
    /\ rtMutex.owner # "worker"
    /\ rtSubs' = EraseTopic(rtSubs, t)
    /\ rtApp' = [IdleApp EXCEPT !.pc = "chk", !.kind = "unsubscribe", !.topic = t]
    /\ rtOps' = rtOps + 1
    /\ UNCHANGED <<rtClientId, rtReady, rtStop, rtMutex, rtW, rtPost,
                   rtHookSet, rtClosures, rtCrashed>>
    /\ UNCHANGED <<psVars, auxVars, obsVars>>

\* unsubscribe(), lines 38-45 with no topic: clear under the lock
RtCallUnsubscribeAll ==
    /\ RtCanCall
    /\ rtMutex.owner # "worker"
    /\ rtSubs' = EmptySubs
    /\ rtApp' = [IdleApp EXCEPT !.pc = "chk", !.kind = "unsubscribeAll"]
    /\ rtOps' = rtOps + 1
    /\ UNCHANGED <<rtClientId, rtReady, rtStop, rtMutex, rtW, rtPost,
                   rtHookSet, rtClosures, rtCrashed>>
    /\ UNCHANGED <<psVars, auxVars, obsVars>>

\* unsubscribeByPrefix(), lines 53-60: the lock is held until the call returns
RtCallUnsubscribeByPrefix(p) ==
    /\ RtCanCall
    /\ rtMutex.owner # "worker"
    /\ rtMutex' = RtAppLock
    /\ rtSubs' = ErasePrefix(rtSubs, p)
    /\ rtApp' = [IdleApp EXCEPT !.pc = "chk", !.kind = "unsubscribeByPrefix",
                                !.topic = p]
    /\ rtOps' = rtOps + 1
    /\ UNCHANGED <<rtClientId, rtReady, rtStop, rtW, rtPost, rtHookSet,
                   rtClosures, rtCrashed>>
    /\ UNCHANGED <<psVars, auxVars, obsVars>>

\* the closure returned by subscribe: unsubscribeByTopicAndListener, lines
\* 68-79; the lock is held until the call returns
RtCallClosure(c) ==
    /\ RtCanCall
    /\ c \in rtClosures
    /\ rtMutex.owner # "worker"
    /\ rtOps' = rtOps + 1
    /\ IF c[1] \notin DOMAIN rtSubs
       THEN UNCHANGED <<rtSubs, rtMutex, rtApp>>
       ELSE /\ rtMutex' = RtAppLock
            /\ rtSubs' = RemoveListener(rtSubs, c[1], c[2])
            /\ rtApp' = [IdleApp EXCEPT !.pc = "chk", !.kind = "closure",
                                        !.topic = c[1], !.lis = c[2]]
    /\ UNCHANGED <<rtClientId, rtReady, rtStop, rtW, rtPost, rtHookSet,
                   rtClosures, rtCrashed>>
    /\ UNCHANGED <<psVars, auxVars, obsVars>>

\* lines 47, 62, 81: if (subscriptions_.empty()) disconnect();
RtCheckEmpty ==
    /\ RtAppAt("empty")
    /\ IF DOMAIN rtSubs = {}
       THEN rtApp' = [rtApp EXCEPT !.pc = "disc1"] /\ UNCHANGED rtMutex
       ELSE RtFinish
    /\ UNCHANGED <<rtSubs, rtClientId, rtReady, rtStop, rtW, rtPost,
                   rtHookSet, rtClosures, rtOps, rtCrashed>>
    /\ UNCHANGED <<psVars, auxVars, obsVars>>

\* disconnect() called by the application
RtCallDisconnect ==
    /\ RtCanCall
    /\ rtApp' = [IdleApp EXCEPT !.pc = "disc1", !.kind = "disconnect"]
    /\ rtOps' = rtOps + 1
    /\ UNCHANGED <<rtSubs, rtClientId, rtReady, rtStop, rtMutex, rtW, rtPost,
                   rtHookSet, rtClosures, rtCrashed>>
    /\ UNCHANGED <<psVars, auxVars, obsVars>>

\* disconnect(), line 99: stop_ = true
RtDisconnectStop ==
    /\ RtAppAt("disc1")
    /\ rtStop' = TRUE
    /\ rtApp' = [rtApp EXCEPT !.pc = "disc2"]
    /\ UNCHANGED <<rtSubs, rtClientId, rtReady, rtMutex, rtW, rtPost,
                   rtHookSet, rtClosures, rtOps, rtCrashed>>
    /\ UNCHANGED <<psVars, auxVars, obsVars>>

\* disconnect(), line 100: ready_ = false
RtDisconnectReady ==
    /\ RtAppAt("disc2")
    /\ rtReady' = FALSE
    /\ rtApp' = [rtApp EXCEPT !.pc = "join"]
    /\ UNCHANGED <<rtSubs, rtClientId, rtStop, rtMutex, rtW, rtPost,
                   rtHookSet, rtClosures, rtOps, rtCrashed>>
    /\ UNCHANGED <<psVars, auxVars, obsVars>>

\* disconnect(), lines 101-103: join() returns once run() has returned
RtJoin ==
    /\ RtAppAt("join")
    /\ rtW.pc \in {"none", "w_exit"}
    /\ rtW' = NoWorker
    /\ RtFinish
    /\ UNCHANGED <<rtSubs, rtClientId, rtReady, rtStop, rtPost, rtHookSet,
                   rtClosures, rtOps, rtCrashed>>
    /\ UNCHANGED <<psVars, auxVars, obsVars>>

RtAppNext ==
    \/ \E t \in Topics, f \in PlainCallables : RtCallSubscribe(t, f.type, f.does)
    \/ RtCallEnsureConnected
    \/ RtWaitReady
    \/ RtWaitTimeout
    \/ RtUnwind
    \/ RtSubmitCheck
    \/ RtSubmitPost
    \/ RtSubscribeReturn
    \/ \E t \in Topics : RtCallUnsubscribe(t)
    \/ RtCallUnsubscribeAll
    \/ \E p \in Prefixes : RtCallUnsubscribeByPrefix(p)
    \/ \E t \in Topics, l \in AllListeners : RtCallClosure(<<t, l>>)
    \/ RtCheckEmpty
    \/ RtCallDisconnect
    \/ RtDisconnectStop
    \/ RtDisconnectReady
    \/ RtJoin

(***************************************************************************)
(* RealtimeService: the background thread, run() and the callbacks that    *)
(* libcurl invokes on it.                                                  *)
(***************************************************************************)
RtWorkerAt(pc) == ~rtCrashed /\ rtW.pc = pc

\* the worker inside curl_easy_perform, between two frames
RtStreaming == [NoWorker EXCEPT !.pc = "w_stream", !.greeted = TRUE]

\* run(), lines 175-206: loop test, the Authorization header, then the
\* streaming GET is in flight.  isValid() takes the store's lock, so it
\* sees the token of before or after a save(); token() (auth_store.h:18)
\* returns a reference to token_ without the lock, and line 192 copies the
\* string on the worker while a save() on another thread may be assigning
\* it: a data race, whose copy is the old value, the new one or a mix.
RtLoop ==
    /\ RtWorkerAt("w_loop")
    /\ rtW' = [NoWorker EXCEPT !.pc = IF rtStop THEN "w_exit" ELSE "w_stream"]
    /\ IF rtStop THEN UNCHANGED sentAuth
       ELSE IF ~isValid(auth.token) THEN sentAuth' = ""
       ELSE IF auth.write = <<>> THEN sentAuth' = auth.token
       ELSE sentAuth' \in {auth.token, auth.write[1], "torn"}
    /\ UNCHANGED <<rtSubs, rtClientId, rtReady, rtStop, rtMutex, rtApp,
                   rtPost, rtHookSet, rtClosures, rtOps, rtCrashed>>
    /\ UNCHANGED <<psVars, pWhole, pFed, pReads, pSt, auth, moreVars, obsVars>>

\* realtimeWrite() completes a PB_CONNECT frame, the first frame of a stream
RtRecvConnect(c) ==
    /\ RtWorkerAt("w_stream")
    /\ ~rtW.greeted
    /\ rtW' = [RtStreaming EXCEPT !.pc = "h_id", !.payload = [clientId |-> c]]
    /\ UNCHANGED <<rtSubs, rtClientId, rtReady, rtStop, rtMutex, rtApp,
                   rtPost, rtHookSet, rtClosures, rtOps, rtCrashed>>
    /\ UNCHANGED <<psVars, auxVars, obsVars>>

\* handleEvent(), lines 229-230: client_id_ is written, then ready_ is set
RtHandleConnect ==
    /\ RtWorkerAt("h_id")
    /\ rtClientId' = PayloadClientId(rtW.payload)
    /\ rtReady' = TRUE
    /\ rtW' = [rtW EXCEPT !.pc = "h_chk"]
    /\ UNCHANGED <<rtSubs, rtStop, rtMutex, rtApp, rtPost, rtHookSet,
                   rtClosures, rtOps, rtCrashed>>
    /\ UNCHANGED <<psVars, auxVars, obsVars>>

\* handleEvent() -> submitSubscriptions(), line 258
RtHandleSubmitCheck ==
    /\ RtWorkerAt("h_chk")
    /\ rtW' = [rtW EXCEPT !.chk = rtReady /\ rtClientId # "",
                          !.pc = IF ~rtReady \/ rtClientId = ""
                                 THEN "h_hook" ELSE "h_snap"]
    /\ UNCHANGED <<rtSubs, rtClientId, rtReady, rtStop, rtMutex, rtApp,
                   rtPost, rtHookSet, rtClosures, rtOps, rtCrashed>>
    /\ UNCHANGED <<psVars, auxVars, obsVars>>

\* handleEvent() -> submitSubscriptions(), lines 259-266: needs the lock
RtHandleSnapshot ==
    /\ RtWorkerAt("h_snap")
    /\ rtMutex.owner = "none"
    /\ rtW' = [rtW EXCEPT !.active = ActiveTopics(rtSubs),
                          !.pc = IF ActiveTopics(rtSubs) = {}
                                 THEN "h_hook" ELSE "h_post"]
    /\ UNCHANGED <<rtSubs, rtClientId, rtReady, rtStop, rtMutex, rtApp,
                   rtPost, rtHookSet, rtClosures, rtOps, rtCrashed>>
    /\ UNCHANGED <<psVars, auxVars, obsVars>>

\* handleEvent() -> submitSubscriptions(), lines 267-280.  An abort is
\* swallowed; any other failure is rethrown and nothing on the worker
\* catches it, so the thread function is left by an exception.
RtHandlePost ==
    /\ RtWorkerAt("h_post")
    /\ rtPost' = [sent |-> TRUE, clientId |-> rtClientId, subs |-> rtW.active]
    /\ rtW' = [rtW EXCEPT !.pc = "h_hook", !.sent = rtPost']
    /\ \E r \in PostResults : rtCrashed' = (r = "error")
    /\ UNCHANGED <<rtSubs, rtClientId, rtReady, rtStop, rtMutex, rtApp,
                   rtHookSet, rtClosures, rtOps>>
    /\ UNCHANGED <<psVars, auxVars, obsVars>>

\* handleEvent() without the return of line 237: after the hook the frame
\* goes on to the listener lookup
RtHandleHookNoReturn ==
    /\ RtWorkerAt("h_hook")
    /\ rtW' = [rtW EXCEPT !.pc = "e_snap"]
    /\ UNCHANGED <<rtSubs, rtClientId, rtReady, rtStop, rtMutex, rtApp,
                   rtPost, rtHookSet, rtClosures, rtOps, rtCrashed>>
    /\ UNCHANGED <<psVars, auxVars, obsVars>>

\* handleEvent(), lines 232-237: onDisconnect({}) with exceptions discarded
RtHandleHook ==
    /\ RtWorkerAt("h_hook")
    /\ rtW' = RtStreaming
    /\ UNCHANGED <<rtSubs, rtClientId, rtReady, rtStop, rtMutex, rtApp,
                   rtPost, rtHookSet, rtClosures, rtOps, rtCrashed>>
    /\ UNCHANGED <<psVars, auxVars, obsVars>>

\* the event name "PB_CONNECT", written as a topic
PBConnect == <<8>>

\* realtimeWrite() completes a frame of any event name, PB_CONNECT or a
\* topic, at any place of the stream, with payload {clientId: c, n: d}, and
\* calls handleEvent(), whose line 228 tells the two kinds apart
RtRecvFrame(name, c, d) ==
    /\ RtWorkerAt("w_stream")
    /\ Len(wire) < MaxEvents
    /\ wire' = Append(wire, <<name, d>>)
    /\ rtW' = [rtW EXCEPT !.pc = IF name = PBConnect THEN "h_id" ELSE "e_snap",
                          !.greeted = TRUE, !.payload = [clientId |-> c],
                          !.topic = name, !.data = d]
    /\ UNCHANGED <<rtSubs, rtClientId, rtReady, rtStop, rtMutex, rtApp,
                   rtPost, rtHookSet, rtClosures, rtOps, rtCrashed>>
    /\ UNCHANGED <<psVars, auxVars, delivered>>

\* realtimeWrite() with eventName assigned only after handleEvent(): the
\* frame is dispatched under the event name of the frame before it
RtRecvEventStaleName(t, d) ==
    /\ RtWorkerAt("w_stream")
    /\ rtW.greeted
    /\ d # 0 => Len(wire) < MaxEvents
    /\ rtW' = [rtW EXCEPT !.pc = "e_snap", !.data = d,
                          !.topic = IF wire = <<>> THEN t
                                    ELSE wire[Len(wire)][1]]
    /\ wire' = IF d = 0 THEN wire ELSE Append(wire, <<t, d>>)
    /\ UNCHANGED <<rtSubs, rtClientId, rtReady, rtStop, rtMutex, rtApp,
                   rtPost, rtHookSet, rtClosures, rtOps, rtCrashed>>
    /\ UNCHANGED <<psVars, auxVars, delivered>>

\* realtimeWrite() completes a frame whose event name is topic t and whose
\* data is d (0: a frame without data), and calls handleEvent()
RtRecvEvent(t, d) ==
    /\ RtWorkerAt("w_stream")
    /\ rtW.greeted
    /\ d # 0 => Len(wire) < MaxEvents
    /\ rtW' = [rtW EXCEPT !.pc = "e_snap", !.topic = t, !.data = d]
    /\ wire' = IF d = 0 THEN wire ELSE Append(wire, <<t, d>>)
    /\ UNCHANGED <<rtSubs, rtClientId, rtReady, rtStop, rtMutex, rtApp,
                   rtPost, rtHookSet, rtClosures, rtOps, rtCrashed>>
    /\ UNCHANGED <<psVars, auxVars, delivered>>

\* handleEvent(), lines 240-247: snapshot of the listener list under the lock
RtEventSnapshot ==
    /\ RtWorkerAt("e_snap")
    /\ rtMutex.owner = "none"
    /\ rtW' = [rtW EXCEPT !.pc = "e_call", !.i = 1,
                          !.listeners = IF rtW.topic \in DOMAIN rtSubs
                                        THEN rtSubs[rtW.topic] ELSE <<>>]
    /\ UNCHANGED <<rtSubs, rtClientId, rtReady, rtStop, rtMutex, rtApp,
                   rtPost, rtHookSet, rtClosures, rtOps, rtCrashed>>
    /\ UNCHANGED <<psVars, auxVars, obsVars>>

\* what an invoked listener that makes no call into the service does: a
\* recording listener keeps the event it was given
Record(log, l, t, d) ==
    IF l.does = "record" THEN [log EXCEPT ![l.id] = Append(@, <<t, d>>)]
    ELSE log

\* handleEvent(), lines 248-254, with one try block around the whole loop:
\* the exception of a listener ends the dispatch of the event
RtEventDispatchOneTry ==
    /\ RtWorkerAt("e_call")
    /\ rtW.i <= Len(rtW.listeners)
    /\ rtW.listeners[rtW.i].does \in {"return", "throw", "record"}
    /\ delivered' = Record(delivered, rtW.listeners[rtW.i], rtW.topic, rtW.data)
    /\ rtW' = IF rtW.listeners[rtW.i].does = "throw"
              THEN [rtW EXCEPT !.i = Len(rtW.listeners) + 1]
              ELSE [rtW EXCEPT !.i = rtW.i + 1]
    /\ UNCHANGED <<rtSubs, rtClientId, rtReady, rtStop, rtMutex, rtApp,
                   rtPost, rtHookSet, rtClosures, rtOps, rtCrashed>>
    /\ UNCHANGED <<psVars, auxVars, wire>>

\* handleEvent(), lines 248-254: one pass of the loop.  The listener is
\* invoked with the payload; whether it returns or throws, the loop goes on
\* with the next listener of the snapshot.
RtEventDispatch ==
    /\ RtWorkerAt("e_call")
    /\ rtW.i <= Len(rtW.listeners)
    /\ rtW.listeners[rtW.i].does \in {"return", "throw", "record"}
    /\ delivered' = Record(delivered, rtW.listeners[rtW.i], rtW.topic, rtW.data)
    /\ rtW' = [rtW EXCEPT !.i = rtW.i + 1]
    /\ UNCHANGED <<rtSubs, rtClientId, rtReady, rtStop, rtMutex, rtApp,
                   rtPost, rtHookSet, rtClosures, rtOps, rtCrashed>>
    /\ UNCHANGED <<psVars, auxVars, wire>>

\* handleEvent(), line 248: the loop is over, handleEvent() returns to
\* realtimeWrite(), which goes on with the bytes that follow
RtEventDone ==
    /\ RtWorkerAt("e_call")
    /\ rtW.i > Len(rtW.listeners)
    /\ rtW' = RtStreaming
    /\ UNCHANGED <<rtSubs, rtClientId, rtReady, rtStop, rtMutex, rtApp,
                   rtPost, rtHookSet, rtClosures, rtOps, rtCrashed>>
    /\ UNCHANGED <<psVars, auxVars, obsVars>>

(***************************************************************************)
(* RealtimeService: a listener that calls back into the service.  The call *)
(* runs on the worker, inside the try block of handleEvent(), line 250.    *)
(***************************************************************************)
\* the std::lock_guard<std::recursive_mutex> of a call made on the worker
RtWorkerLock == [owner |-> "worker", depth |-> 1]

\* the call made by the listener is over: with res = "error" an exception
\* left it and was discarded at line 251; the loop goes on
RtListenerReturn(res) ==
    /\ rtW' = [rtW EXCEPT !.pc = "e_call", !.i = rtW.i + 1, !.lres = res]
    /\ rtMutex' = FreeMutex

\* The listener calls unsubscribe(topic of the event), lines 38-45, or the
\* closure subscribe returned for it, lines 68-79; a listener whose
\* subscribe call did not return has no closure to call.
RtListenerCall ==
    /\ RtWorkerAt("e_call")
    /\ rtW.i <= Len(rtW.listeners)
    /\ rtW.listeners[rtW.i].does \in {"unsubscribe", "closure"}
    /\ rtMutex.owner # "app"
    /\ LET l == rtW.listeners[rtW.i] IN
       IF l.does = "unsubscribe"
       THEN /\ rtSubs' = EraseTopic(rtSubs, rtW.topic)
            /\ rtW' = [rtW EXCEPT !.pc = "l_chk"]
            /\ UNCHANGED rtMutex
       ELSE IF <<rtW.topic, l>> \notin rtClosures
            THEN /\ rtW' = [rtW EXCEPT !.i = rtW.i + 1]
                 /\ UNCHANGED <<rtSubs, rtMutex>>
            ELSE IF rtW.topic \notin DOMAIN rtSubs
                 THEN /\ RtListenerReturn("ok")
                      /\ UNCHANGED rtSubs
                 ELSE /\ rtSubs' = RemoveListener(rtSubs, rtW.topic, l)
                      /\ rtW' = [rtW EXCEPT !.pc = "l_chk"]
                      /\ rtMutex' = RtWorkerLock
    /\ UNCHANGED <<rtClientId, rtReady, rtStop, rtApp, rtPost, rtHookSet,
                   rtClosures, rtOps, rtCrashed>>
    /\ UNCHANGED <<psVars, auxVars, obsVars>>

\* the listener's call -> submitSubscriptions(), lines 258-266
RtListenerSubmitCheck ==
    /\ RtWorkerAt("l_chk")
    /\ IF ~rtReady \/ rtClientId = ""
       THEN rtW' = [rtW EXCEPT !.pc = "l_empty"]
       ELSE /\ rtMutex.owner # "app"
            /\ rtW' = [rtW EXCEPT !.active = ActiveTopics(rtSubs),
                                  !.pc = IF ActiveTopics(rtSubs) = {}
                                         THEN "l_empty" ELSE "l_post"]
    /\ UNCHANGED <<rtSubs, rtClientId, rtReady, rtStop, rtMutex, rtApp,
                   rtPost, rtHookSet, rtClosures, rtOps, rtCrashed>>
    /\ UNCHANGED <<psVars, auxVars, obsVars>>

\* the listener's call -> submitSubscriptions(), lines 267-280: a failure
\* other than an abort is rethrown through the call and the listener
RtListenerSubmitPost ==
    /\ RtWorkerAt("l_post")
    /\ rtPost' = [sent |-> TRUE, clientId |-> rtClientId, subs |-> rtW.active]
    /\ \E r \in PostResults :
          IF r = "error"
          THEN RtListenerReturn("error")
          ELSE rtW' = [rtW EXCEPT !.pc = "l_empty"] /\ UNCHANGED rtMutex
    /\ UNCHANGED <<rtSubs, rtClientId, rtReady, rtStop, rtApp, rtHookSet,
                   rtClosures, rtOps, rtCrashed>>
    /\ UNCHANGED <<psVars, auxVars, obsVars>>

\* the listener's call, lines 47-49 and 81-83: if the registry is empty,
\* disconnect() (lines 99-102) sets stop_, clears ready_ and joins worker_.
\* The calling thread is worker_ itself: std::thread::join() throws
\* std::system_error (resource_deadlock_would_occur), which unwinds through
\* the call into the catch of line 251.
RtListenerCheckEmpty ==
    /\ RtWorkerAt("l_empty")
    /\ IF DOMAIN rtSubs = {}
       THEN /\ rtStop' = TRUE
            /\ rtReady' = FALSE
            /\ RtListenerReturn("error")
       ELSE /\ RtListenerReturn("ok")
            /\ UNCHANGED <<rtStop, rtReady>>
    /\ UNCHANGED <<rtSubs, rtClientId, rtApp, rtPost, rtHookSet, rtClosures,
                   rtOps, rtCrashed>>
    /\ UNCHANGED <<psVars, auxVars, obsVars>>

RtListenerNext ==
    \/ RtListenerCall
    \/ RtListenerSubmitCheck
    \/ RtListenerSubmitPost
    \/ RtListenerCheckEmpty

\* curl_easy_perform returns because the server or the network ended the stream
RtStreamEnd ==
    /\ RtWorkerAt("w_stream")
    /\ rtW' = [rtW EXCEPT !.pc = "w_after"]
    /\ UNCHANGED <<rtSubs, rtClientId, rtReady, rtStop, rtMutex, rtApp,
                   rtPost, rtHookSet, rtClosures, rtOps, rtCrashed>>
    /\ UNCHANGED <<psVars, auxVars, obsVars>>

\* realtimeProgress() sees stop_ and aborts the transfer, lines 169-172
RtProgressAbort ==
    /\ RtWorkerAt("w_stream")
    /\ rtStop
    /\ rtW' = [rtW EXCEPT !.pc = "w_after"]
    /\ UNCHANGED <<rtSubs, rtClientId, rtReady, rtStop, rtMutex, rtApp,
                   rtPost, rtHookSet, rtClosures, rtOps, rtCrashed>>
    /\ UNCHANGED <<psVars, auxVars, obsVars>>

\* run(), lines 210-211: ready_ = false, client_id_.clear()
RtAfterPerform ==
    /\ RtWorkerAt("w_after")
    /\ rtReady' = FALSE
    /\ rtClientId' = ""
    /\ rtW' = [rtW EXCEPT !.pc = "w_stop"]
    /\ UNCHANGED <<rtSubs, rtStop, rtMutex, rtApp, rtPost, rtHookSet,
                   rtClosures, rtOps, rtCrashed>>
    /\ UNCHANGED <<psVars, auxVars, obsVars>>

\* run() without the stop_ test of line 213
RtAfterStopTestNoStop ==
    /\ RtWorkerAt("w_stop")
    /\ rtW' = [NoWorker EXCEPT !.pc = IF rtHookSet THEN "w_hsnap" ELSE "w_loop"]
    /\ UNCHANGED <<rtSubs, rtClientId, rtReady, rtStop, rtMutex, rtApp,
                   rtPost, rtHookSet, rtClosures, rtOps, rtCrashed>>
    /\ UNCHANGED <<psVars, auxVars, obsVars>>

\* run(), lines 213-215
RtAfterStopTest ==
    /\ RtWorkerAt("w_stop")
    /\ rtW' = [NoWorker EXCEPT !.pc = IF rtStop THEN "w_exit"
                                      ELSE IF rtHookSet THEN "w_hsnap"
                                      ELSE "w_loop"]
    /\ UNCHANGED <<rtSubs, rtClientId, rtReady, rtStop, rtMutex, rtApp,
                   rtPost, rtHookSet, rtClosures, rtOps, rtCrashed>>
    /\ UNCHANGED <<psVars, auxVars, obsVars>>

\* run(), lines 216-220: the registered topics, read under the lock
RtHookSnapshot ==
    /\ RtWorkerAt("w_hsnap")
    /\ rtMutex.owner = "none"
    /\ rtW' = [rtW EXCEPT !.pc = "w_hcall", !.active = DOMAIN rtSubs]
    /\ UNCHANGED <<rtSubs, rtClientId, rtReady, rtStop, rtMutex, rtApp,
                   rtPost, rtHookSet, rtClosures, rtOps, rtCrashed>>
    /\ UNCHANGED <<psVars, auxVars, obsVars>>

\* run(), lines 221-223: onDisconnect(active), then the backoff sleep; an
\* exception of the hook is not caught and leaves the thread function
RtHookCall ==
    /\ RtWorkerAt("w_hcall")
    /\ rtW' = [NoWorker EXCEPT !.pc = "w_loop"]
    /\ \E throws \in BOOLEAN : rtCrashed' = throws
    /\ UNCHANGED <<rtSubs, rtClientId, rtReady, rtStop, rtMutex, rtApp,
                   rtPost, rtHookSet, rtClosures, rtOps>>
    /\ UNCHANGED <<psVars, auxVars, obsVars>>

\* the connection loop: everything the worker does but dispatch events
RtConnNext ==
    \/ RtLoop
    \/ \E c \in ClientIds : RtRecvConnect(c)
    \/ RtHandleConnect
    \/ RtHandleSubmitCheck
    \/ RtHandleSnapshot
    \/ RtHandlePost
    \/ RtHandleHook
    \/ RtStreamEnd
    \/ RtProgressAbort
    \/ RtAfterPerform
    \/ RtAfterStopTest
    \/ RtHookSnapshot
    \/ RtHookCall

RtWorkerNext ==
    \/ RtConnNext
    \/ \E t \in Topics : RtRecvEvent(t, 0)
    \/ RtEventSnapshot
    \/ RtEventDispatch
    \/ RtEventDone

RtNext == RtAppNext \/ RtWorkerNext

(***************************************************************************)
(* PubSubService: envelopes.                                               *)
(***************************************************************************)
Conns == 1 .. MaxConns
PendingConns == {c \in Conns : psConn[c] \in {"connecting", "open", "closing"}}
UnusedConns == {c \in Conns : psConn[c] = "unused"}
NewConn == CHOOSE c \in UnusedConns : \A d \in UnusedConns : c <= d

\* payload["type"], payload["topic"]; <<>> is an envelope without a topic
Envelope(type, topic) == [type |-> type, topic |-> topic]

\* publish(), lines 99-102: payload["type"], payload["topic"], payload["data"]
PublishEnvelope(topic, data) ==
    [type |-> "publish", topic |-> topic, data |-> data]

\* what a subscription set becomes when the envelope is received
ApplyEnvelope(set, e) ==
    IF e.type = "subscribe" THEN set \cup {e.topic}
    ELSE IF e.type = "unsubscribe"
         THEN (IF e.topic = <<>> THEN {} ELSE set \ {e.topic})
         ELSE set

\* sendEnvelope(), lines 185-189: nothing is sent unless ready_; send() on a
\* connection that is not open fails with an error code that is ignored
SendEnvelope(e) ==
    IF psReady /\ psHdl \in Conns /\ psConn[psHdl] = "open"
    THEN /\ psSent' = ApplyEnvelope(psSent, e)
         /\ psSrv' = [psSrv EXCEPT ![psHdl] = ApplyEnvelope(@, e)]
         /\ psPubs' = IF e.type = "publish"
                      THEN Append(psPubs, [topic |-> e.topic, data |-> e.data])
                      ELSE psPubs
    ELSE UNCHANGED <<psSent, psPubs, psSrv>>

\* what publish() is given as data
PubData == {1, 2}
NoAck == [topic |-> <<>>, data |-> 0]

\* last: the call removed the last listener of its topic; res, ack: how the
\* last call ended and the PubSubMessage it returned
PsIdleApp == [pc |-> "idle", kind |-> "none", topic |-> <<>>,
              lis |-> NoListener, first |-> FALSE, last |-> FALSE,
              res |-> "none", data |-> 0, ack |-> NoAck]
\* data: msg.data of the message being dispatched (0: none); i: the index of
\* the dispatch loop; lres: how the last call made by a listener ended;
\* raw: the payload the message handler is parsing, if any
PsIdleIo == [pc |-> "run", conn |-> 0, topic |-> <<>>, listeners |-> <<>>,
             data |-> 0, i |-> 0, lres |-> "none", raw |-> <<>>]

(***************************************************************************)
(* PubSubService: application thread.                                      *)
(***************************************************************************)
PsInit ==
    /\ psSubs = EmptySubs
    /\ psReady = FALSE
    /\ psManual = FALSE
    /\ psMutex = "none"
    /\ psHdl = 0
    /\ psThread = "none"
    /\ psStopped = FALSE
    /\ psConn = [c \in Conns |-> "unused"]
    /\ psApp = PsIdleApp
    /\ psIo = PsIdleIo
    /\ psSent = {}
    /\ psSrv = [c \in Conns |-> {}]
    /\ psClosures = {}
    /\ psOps = 0
    /\ psPubs = <<>>
    /\ psCrashed = FALSE

PsCanCall ==
    /\ ~psCrashed /\ psApp.pc = "idle" /\ psOps < MaxOps /\ rtOps = 0
    /\ auth.write = <<>> /\ auth.i = 0
PsAppAt(pc) == ~psCrashed /\ psApp.pc = pc

\* the call returns (res = "ok") or is left by an exception (res = "error")
PsReturn(res) == psApp' = [PsIdleApp EXCEPT !.res = res]

\* where a call continues after ensureSocket() returned
PsAfterEnsure(kind) == IF kind = "publish" THEN "p_send" ELSE "s_send"

\* publish() is called; line 96 passed (the topic is not empty)
PsCallPublish(t, d) ==
    /\ PsCanCall
    /\ UnusedConns # {}
    /\ psApp' = [PsIdleApp EXCEPT !.pc = "es_chk", !.kind = "publish",
                                  !.topic = t, !.data = d]
    /\ psOps' = psOps + 1
    /\ UNCHANGED <<psSubs, psReady, psManual, psMutex, psHdl, psThread,
                   psStopped, psConn, psIo, psSent, psPubs, psSrv, psClosures,
                   psCrashed>>
    /\ UNCHANGED <<rtVars, auxVars, obsVars>>

\* publish(), lines 99-109: the publish envelope, then the echo is returned
PsPublishSend ==
    /\ PsAppAt("p_send")
    /\ SendEnvelope(PublishEnvelope(psApp.topic, psApp.data))
    /\ psApp' = [PsIdleApp EXCEPT !.res = "ok",
                                  !.ack = [topic |-> psApp.topic,
                                           data |-> psApp.data]]
    /\ UNCHANGED <<psSubs, psReady, psManual, psMutex, psHdl, psThread,
                   psStopped, psConn, psIo, psClosures, psOps, psCrashed>>
    /\ UNCHANGED <<rtVars, auxVars, obsVars>>

\* subscribe() is called; line 113 passed (the topic is not empty)
PsCallSubscribe(t, ty, b) ==
    /\ PsCanCall
    /\ UnusedConns # {}
    /\ (t \in DOMAIN psSubs => Len(psSubs[t]) < MaxListeners)
    /\ psApp' = [PsIdleApp EXCEPT !.pc = "s_lock", !.kind = "subscribe",
                                  !.topic = t,
                                  !.lis = [id |-> psOps + 1, type |-> ty,
                                           does |-> b]]
    /\ psOps' = psOps + 1
    /\ UNCHANGED <<psSubs, psReady, psManual, psMutex, psHdl, psThread,
                   psStopped, psConn, psIo, psSent, psPubs, psSrv, psClosures,
                   psCrashed>>
    /\ UNCHANGED <<rtVars, auxVars, obsVars>>

\* subscribe(), lines 116-121: registration under the lock
PsSubscribeRegister ==
    /\ PsAppAt("s_lock")
    /\ psMutex = "none"
    /\ psSubs' = PushListener(psSubs, psApp.topic, psApp.lis)
    /\ psApp' = [psApp EXCEPT !.pc = "es_chk",
                    !.first = (psApp.topic \notin DOMAIN psSubs
                               \/ psSubs[psApp.topic] = <<>>)]
    /\ UNCHANGED <<psReady, psManual, psMutex, psHdl, psThread, psStopped,
                   psConn, psIo, psSent, psPubs, psSrv, psClosures, psOps, psCrashed>>
    /\ UNCHANGED <<rtVars, auxVars, obsVars>>

\* ensureSocket(), line 69: ready_ read without the lock
PsEnsureCheck ==
    /\ PsAppAt("es_chk")
    /\ psApp' = [psApp EXCEPT !.pc = IF psReady THEN PsAfterEnsure(psApp.kind)
                                     ELSE "es_lock"]
    /\ UNCHANGED <<psSubs, psReady, psManual, psMutex, psHdl, psThread,
                   psStopped, psConn, psIo, psSent, psPubs, psSrv, psClosures, psOps,
                   psCrashed>>
    /\ UNCHANGED <<rtVars, auxVars, obsVars>>

\* ensureSocket() without the second test of ready_ (line 71)
PsEnsureConnectNoRecheck ==
    /\ PsAppAt("es_lock")
    /\ psMutex = "none"
    /\ psMutex' = "app"
    /\ psManual' = FALSE
    /\ psHdl' = NewConn
    /\ psConn' = [psConn EXCEPT ![NewConn] = "connecting"]
    /\ IF psThread = "none"
       THEN psThread' = "running" /\ psIo' = PsIdleIo
       ELSE UNCHANGED <<psThread, psIo>>
    /\ psApp' = [psApp EXCEPT !.pc = "es_wait"]
    /\ sentAuth' = IF isValid(auth.token) THEN auth.token ELSE ""
    /\ UNCHANGED <<psSubs, psReady, psStopped, psSent, psPubs, psSrv, psClosures,
                   psOps, psCrashed>>
    /\ UNCHANGED <<rtVars, pWhole, pFed, pReads, pSt, auth, moreVars, obsVars>>

\* ensureSocket(), lines 70-83: under the lock, a new connection is created
\* and connect() is called; the I/O thread is started unless joinable.  The
\* lock stays held while the function waits.  The URL of line 75 is built
\* by buildWsUrl() (lines 52-66), which puts the store's token into the
\* query if isValid(); the call runs on the application thread, which is
\* not inside save() (PsCanCall).
PsEnsureConnect ==
    /\ PsAppAt("es_lock")
    /\ psMutex = "none"
    /\ IF psReady
       THEN /\ psApp' = [psApp EXCEPT !.pc = PsAfterEnsure(psApp.kind)]
            /\ UNCHANGED <<psMutex, psManual, psHdl, psConn, psThread, psIo,
                           sentAuth>>
       ELSE /\ psMutex' = "app"
            /\ psManual' = FALSE
            /\ psHdl' = NewConn
            /\ psConn' = [psConn EXCEPT ![NewConn] = "connecting"]
            /\ IF psThread = "none"
               THEN psThread' = "running" /\ psIo' = PsIdleIo
               ELSE UNCHANGED <<psThread, psIo>>
            /\ psApp' = [psApp EXCEPT !.pc = "es_wait"]
            /\ sentAuth' = IF isValid(auth.token) THEN auth.token ELSE ""
    /\ UNCHANGED <<psSubs, psReady, psStopped, psSent, psPubs, psSrv, psClosures,
                   psOps, psCrashed>>
    /\ UNCHANGED <<rtVars, pWhole, pFed, pReads, pSt, auth, moreVars, obsVars>>

\* ensureSocket(), lines 86-92: the polling loop ends, with ready_ set or by
\* the 10 s limit; the lock_guard of line 70 is released on both exits
PsEnsureWait ==
    /\ PsAppAt("es_wait")
    /\ psMutex' = "none"
    /\ IF psReady
       THEN psApp' = [psApp EXCEPT !.pc = PsAfterEnsure(psApp.kind)]
       ELSE PsReturn("error")
    /\ UNCHANGED <<psSubs, psReady, psManual, psHdl, psThread, psStopped,
                   psConn, psIo, psSent, psPubs, psSrv, psClosures, psOps, psCrashed>>
    /\ UNCHANGED <<rtVars, auxVars, obsVars>>

\* subscribe(), lines 124-152: the subscribe envelope of a first listener,
\* then the closure is returned
PsSubscribeSend ==
    /\ PsAppAt("s_send")
    /\ IF psApp.first
       THEN SendEnvelope(Envelope("subscribe", psApp.topic))
       ELSE UNCHANGED <<psSent, psPubs, psSrv>>
    /\ psClosures' = psClosures \cup {<<psApp.topic, psApp.lis>>}
    /\ PsReturn("ok")
    /\ UNCHANGED <<psSubs, psReady, psManual, psMutex, psHdl, psThread,
                   psStopped, psConn, psIo, psOps, psCrashed>>
    /\ UNCHANGED <<rtVars, auxVars, obsVars>>

\* the closure returned by subscribe is called
PsCallClosure(c) ==
    /\ PsCanCall
    /\ c \in psClosures
    /\ psApp' = [PsIdleApp EXCEPT !.pc = "c_lock", !.kind = "closure",
                                  !.topic = c[1], !.lis = c[2]]
    /\ psOps' = psOps + 1
    /\ UNCHANGED <<psSubs, psReady, psManual, psMutex, psHdl, psThread,
                   psStopped, psConn, psIo, psSent, psPubs, psSrv, psClosures,
                   psCrashed>>
    /\ UNCHANGED <<rtVars, auxVars, obsVars>>

\* the closure, lines 132-151, up to the call of disconnect()
PsClosureBody ==
    /\ PsAppAt("c_lock")
    /\ psMutex = "none"
    /\ IF psApp.topic \notin DOMAIN psSubs
       THEN /\ PsReturn("ok")
            /\ UNCHANGED <<psSubs, psSent, psPubs, psSrv, psMutex>>
       ELSE /\ psSubs' = RemoveListener(psSubs, psApp.topic, psApp.lis)
            /\ IF psApp.topic \notin DOMAIN psSubs'
               THEN SendEnvelope(Envelope("unsubscribe", psApp.topic))
               ELSE UNCHANGED <<psSent, psPubs, psSrv>>
            /\ IF DOMAIN psSubs' = {}
               THEN /\ psMutex' = "app"
                    /\ psApp' = [psApp EXCEPT !.pc = "relock", !.last = TRUE]
               ELSE PsReturn("ok") /\ UNCHANGED psMutex
    /\ UNCHANGED <<psReady, psManual, psHdl, psThread, psStopped, psConn,
                   psIo, psClosures, psOps, psCrashed>>
    /\ UNCHANGED <<rtVars, auxVars, obsVars>>

\* unsubscribe(topic) is called
PsCallUnsubscribe(t) ==
    /\ PsCanCall
    /\ psApp' = [PsIdleApp EXCEPT !.pc = "u_lock", !.kind = "unsubscribe",
                                  !.topic = t]
    /\ psOps' = psOps + 1
    /\ UNCHANGED <<psSubs, psReady, psManual, psMutex, psHdl, psThread,
                   psStopped, psConn, psIo, psSent, psPubs, psSrv, psClosures,
                   psCrashed>>
    /\ UNCHANGED <<rtVars, auxVars, obsVars>>

\* unsubscribe() is called without a topic
PsCallUnsubscribeAll ==
    /\ PsCanCall
    /\ psApp' = [PsIdleApp EXCEPT !.pc = "u_lock", !.kind = "unsubscribeAll"]
    /\ psOps' = psOps + 1
    /\ UNCHANGED <<psSubs, psReady, psManual, psMutex, psHdl, psThread,
                   psStopped, psConn, psIo, psSent, psPubs, psSrv, psClosures,
                   psCrashed>>
    /\ UNCHANGED <<rtVars, auxVars, obsVars>>

\* unsubscribe(), lines 155-168, up to the call of disconnect()
PsUnsubscribeBody ==
    /\ PsAppAt("u_lock")
    /\ psMutex = "none"
    /\ psSubs' = IF psApp.kind = "unsubscribe"
                 THEN EraseTopic(psSubs, psApp.topic) ELSE EmptySubs
    /\ SendEnvelope(Envelope("unsubscribe", psApp.topic))
    /\ IF DOMAIN psSubs' = {}
       THEN /\ psMutex' = "app"
            /\ psApp' = [psApp EXCEPT !.pc = "relock",
                                      !.last = (psApp.topic \in DOMAIN psSubs)]
       ELSE PsReturn("ok") /\ UNCHANGED psMutex
    /\ UNCHANGED <<psReady, psManual, psHdl, psThread, psStopped, psConn,
                   psIo, psClosures, psOps, psCrashed>>
    /\ UNCHANGED <<rtVars, auxVars, obsVars>>

\* disconnect(), line 172, reached from the closure or from unsubscribe():
\* the calling thread already owns mutex_, a std::mutex.  Locking it again
\* is undefined; the builds either block the thread for ever or make
\* lock() throw std::system_error, which unwinds through the caller.
PsRelock ==
    /\ PsAppAt("relock")
    /\ \E outcome \in {"deadlock", "throw"} :
          IF outcome = "deadlock"
          THEN psApp' = [psApp EXCEPT !.pc = "stuck"] /\ UNCHANGED psMutex
          ELSE PsReturn("error") /\ psMutex' = "none"
    /\ UNCHANGED <<psSubs, psReady, psManual, psHdl, psThread, psStopped,
                   psConn, psIo, psSent, psPubs, psSrv, psClosures, psOps, psCrashed>>
    /\ UNCHANGED <<rtVars, auxVars, obsVars>>

\* disconnect() is called by the application
PsCallDisconnect ==
    /\ PsCanCall
    /\ psApp' = [PsIdleApp EXCEPT !.pc = "d_lock", !.kind = "disconnect"]
    /\ psOps' = psOps + 1
    /\ UNCHANGED <<psSubs, psReady, psManual, psMutex, psHdl, psThread,
                   psStopped, psConn, psIo, psSent, psPubs, psSrv, psClosures,
                   psCrashed>>
    /\ UNCHANGED <<rtVars, auxVars, obsVars>>

\* disconnect() without line 173: manual_close_ keeps its value
PsDisconnectBodyNoFlag ==
    /\ PsAppAt("d_lock")
    /\ psMutex = "none"
    /\ psConn' = IF psReady /\ psHdl \in Conns /\ psConn[psHdl] = "open"
                 THEN [psConn EXCEPT ![psHdl] = "closing"] ELSE psConn
    /\ psReady' = FALSE
    /\ IF psThread # "none"
       THEN /\ psStopped' = TRUE
            /\ psMutex' = "app"
            /\ psApp' = [psApp EXCEPT !.pc = "d_join"]
       ELSE /\ PsReturn("ok")
            /\ UNCHANGED <<psStopped, psMutex>>
    /\ UNCHANGED <<psSubs, psManual, psHdl, psThread, psIo, psSent, psPubs,
                   psSrv, psClosures, psOps, psCrashed>>
    /\ UNCHANGED <<rtVars, auxVars, obsVars>>

\* disconnect(), lines 172-180: under the lock, the flag, close() and stop()
PsDisconnectBody ==
    /\ PsAppAt("d_lock")
    /\ psMutex = "none"
    /\ psManual' = TRUE
    /\ psConn' = IF psReady /\ psHdl \in Conns /\ psConn[psHdl] = "open"
                 THEN [psConn EXCEPT ![psHdl] = "closing"] ELSE psConn
    /\ psReady' = FALSE
    /\ IF psThread # "none"
       THEN /\ psStopped' = TRUE
            /\ psMutex' = "app"
            /\ psApp' = [psApp EXCEPT !.pc = "d_join"]
       ELSE /\ PsReturn("ok")
            /\ UNCHANGED <<psStopped, psMutex>>
    /\ UNCHANGED <<psSubs, psHdl, psThread, psIo, psSent, psPubs, psSrv, psClosures,
                   psOps, psCrashed>>
    /\ UNCHANGED <<rtVars, auxVars, obsVars>>

\* disconnect(), line 181: join() returns once client_.run() has returned;
\* the lock_guard of line 172 is released when disconnect() returns
PsDisconnectJoin ==
    /\ PsAppAt("d_join")
    /\ psThread = "finished"
    /\ psThread' = "none"
    /\ psMutex' = "none"
    /\ PsReturn("ok")
    /\ UNCHANGED <<psSubs, psReady, psManual, psHdl, psStopped, psConn, psIo,
                   psSent, psPubs, psSrv, psClosures, psOps, psCrashed>>
    /\ UNCHANGED <<rtVars, auxVars, obsVars>>

PsAppNext ==
    \/ \E t \in Topics, f \in PlainCallables : PsCallSubscribe(t, f.type, f.does)
    \/ \E t \in Topics, d \in PubData : PsCallPublish(t, d)
    \/ PsPublishSend
    \/ PsSubscribeRegister
    \/ PsEnsureCheck
    \/ PsEnsureConnect
    \/ PsEnsureWait
    \/ PsSubscribeSend
    \/ \E t \in Topics, l \in AllListeners : PsCallClosure(<<t, l>>)
    \/ PsClosureBody
    \/ \E t \in Topics : PsCallUnsubscribe(t)
    \/ PsCallUnsubscribeAll
    \/ PsUnsubscribeBody
    \/ PsRelock
    \/ PsCallDisconnect
    \/ PsDisconnectBody
    \/ PsDisconnectJoin

(***************************************************************************)
(* PubSubService: the I/O thread, client_.run() and the handlers that the  *)
(* WebSocket library invokes on it, one at a time.                         *)
(***************************************************************************)
PsIoIdle == ~psCrashed /\ psThread = "running" /\ psIo.pc = "run"
PsIoAt(pc) == ~psCrashed /\ psThread = "running" /\ psIo.pc = pc

\* the open handshake of connection c completes: the open handler is entered
PsOnOpen(c) ==
    /\ PsIoIdle /\ ~psStopped
    /\ psConn[c] = "connecting"
    /\ psConn' = [psConn EXCEPT ![c] = "open"]
    /\ psIo' = [PsIdleIo EXCEPT !.pc = "open_lock", !.conn = c]
    /\ UNCHANGED <<psSubs, psReady, psManual, psMutex, psHdl, psThread,
                   psStopped, psApp, psSent, psPubs, psSrv, psClosures, psOps,
                   psCrashed>>
    /\ UNCHANGED <<rtVars, auxVars, obsVars>>

\* the open handler, lines 21-25
PsOpenHandler ==
    /\ PsIoAt("open_lock")
    /\ psMutex = "none"
    /\ psHdl' = psIo.conn
    /\ psReady' = TRUE
    /\ psIo' = PsIdleIo
    /\ UNCHANGED <<psSubs, psManual, psMutex, psThread, psStopped, psConn,
                   psApp, psSent, psPubs, psSrv, psClosures, psOps, psCrashed>>
    /\ UNCHANGED <<rtVars, auxVars, obsVars>>

\* a message for topic t with data d (0: none) arrives on connection c: the
\* message handler, lines 27-34, parses it and enters handleMessage()
PsOnMessage(c, t, d) ==
    /\ PsIoIdle /\ ~psStopped
    /\ psConn[c] = "open"
    /\ d # 0 => Len(wire) < MaxEvents
    /\ psIo' = [PsIdleIo EXCEPT !.pc = "msg_lock", !.conn = c, !.topic = t,
                                !.data = d]
    /\ wire' = IF d = 0 THEN wire ELSE Append(wire, <<t, d>>)
    /\ UNCHANGED <<psSubs, psReady, psManual, psMutex, psHdl, psThread,
                   psStopped, psConn, psApp, psSent, psPubs, psSrv, psClosures,
                   psOps, psCrashed>>
    /\ UNCHANGED <<rtVars, auxVars, delivered>>

\* Payloads that are not a message object: text that is not JSON, JSON that
\* is not an object, and objects whose "topic" is missing or not a string or
\* whose "id" is not a string.
InboundMalformed ==
    {[shape |-> sh, topicIs |-> "absent", topic |-> <<>>, idIs |-> "string"] :
        sh \in {"text", "array"}}
    \cup {[shape |-> "object", topicIs |-> k, topic |-> <<>>, idIs |-> i] :
             k \in {"absent", "number"}, i \in {"string", "number"}}
    \cup {[shape |-> "object", topicIs |-> "string", topic |-> t,
           idIs |-> "number"] : t \in Topics}

\* payload m arrives on connection c: the message handler is entered,
\* line 27
PsOnRaw(c, m) ==
    /\ PsIoIdle /\ ~psStopped
    /\ psConn[c] = "open"
    /\ psIo' = [PsIdleIo EXCEPT !.pc = "msg_parse", !.conn = c, !.raw = <<m>>]
    /\ UNCHANGED <<psSubs, psReady, psManual, psMutex, psHdl, psThread,
                   psStopped, psConn, psApp, psSent, psPubs, psSrv, psClosures,
                   psOps, psCrashed>>
    /\ UNCHANGED <<rtVars, auxVars, obsVars>>

\* the one without the try block of the handler
PsMessageParseNoCatch ==
    /\ PsIoAt("msg_parse")
    /\ LET m == psIo.raw[1] IN
       IF \/ m.shape \in {"text", "array"}
          \/ m.topicIs = "number"
          \/ m.idIs = "number"
       THEN psIo' = [psIo EXCEPT !.pc = "thrown"] /\ psCrashed' = TRUE
       ELSE /\ psIo' = [psIo EXCEPT !.pc = "msg_lock", !.topic = m.topic]
            /\ UNCHANGED psCrashed
    /\ UNCHANGED <<psSubs, psReady, psManual, psMutex, psHdl, psThread,
                   psStopped, psConn, psApp, psSent, psPubs, psSrv, psClosures,
                   psOps>>
    /\ UNCHANGED <<rtVars, auxVars, obsVars>>

\* The message handler, lines 28-33, and handleMessage(), lines 192-198.
\* json::parse throws on text that is not JSON; value() throws on a JSON
\* value that is not an object and on a field of another type than the
\* default's; a missing field reads as the default, "" for the topic.  An
\* exception leaves handleMessage() before the listeners are looked up and
\* is caught at line 33: the handler returns.
PsMessageParse ==
    /\ PsIoAt("msg_parse")
    /\ LET m == psIo.raw[1] IN
       IF \/ m.shape \in {"text", "array"}
          \/ m.topicIs = "number"
          \/ m.idIs = "number"
       THEN psIo' = PsIdleIo
       ELSE psIo' = [psIo EXCEPT !.pc = "msg_lock", !.topic = m.topic]
    /\ UNCHANGED <<psSubs, psReady, psManual, psMutex, psHdl, psThread,
                   psStopped, psConn, psApp, psSent, psPubs, psSrv, psClosures,
                   psOps, psCrashed>>
    /\ UNCHANGED <<rtVars, auxVars, obsVars>>

\* handleMessage(), lines 200-207: snapshot of the listener list under the lock
PsMessageSnapshot ==
    /\ PsIoAt("msg_lock")
    /\ psMutex = "none"
    /\ psIo' = [psIo EXCEPT !.pc = "msg_call", !.i = 1,
                            !.listeners = IF psIo.topic \in DOMAIN psSubs
                                          THEN psSubs[psIo.topic] ELSE <<>>]
    /\ UNCHANGED <<psSubs, psReady, psManual, psMutex, psHdl, psThread,
                   psStopped, psConn, psApp, psSent, psPubs, psSrv, psClosures,
                   psOps, psCrashed>>
    /\ UNCHANGED <<rtVars, auxVars, obsVars>>

\* handleMessage(), lines 208-213: one pass of the loop.  The listener is
\* invoked with the message; whether it returns or throws, the loop goes on
\* with the next listener of the snapshot.
PsMessageDispatch ==
    /\ PsIoAt("msg_call")
    /\ psIo.i <= Len(psIo.listeners)
    /\ psIo.listeners[psIo.i].does \in {"return", "throw", "record"}
    /\ delivered' = Record(delivered, psIo.listeners[psIo.i], psIo.topic, psIo.data)
    /\ psIo' = [psIo EXCEPT !.i = psIo.i + 1]
    /\ UNCHANGED <<psSubs, psReady, psManual, psMutex, psHdl, psThread,
                   psStopped, psConn, psApp, psSent, psPubs, psSrv, psClosures,
                   psOps, psCrashed>>
    /\ UNCHANGED <<rtVars, auxVars, wire>>

\* handleMessage(), line 208: the loop is over, the message handler returns
PsMessageDone ==
    /\ PsIoAt("msg_call")
    /\ psIo.i > Len(psIo.listeners)
    /\ psIo' = PsIdleIo
    /\ UNCHANGED <<psSubs, psReady, psManual, psMutex, psHdl, psThread,
                   psStopped, psConn, psApp, psSent, psPubs, psSrv, psClosures,
                   psOps, psCrashed>>
    /\ UNCHANGED <<rtVars, auxVars, obsVars>>

(***************************************************************************)
(* PubSubService: a listener that calls back into the service.  The call   *)
(* runs on the I/O thread, inside the try block of handleMessage(), line   *)
(* 210.                                                                    *)
(***************************************************************************)
\* the call made by the listener is over: with res = "error" an exception
\* left it and was discarded at line 211; the loop goes on
PsListenerReturn(res) ==
    /\ psIo' = [psIo EXCEPT !.pc = "msg_call", !.i = psIo.i + 1, !.lres = res]

\* The listener calls unsubscribe(topic of the message), lines 155-168, or
\* the closure subscribe returned for it, lines 132-150, up to the call of
\* disconnect(); a listener whose subscribe call did not return has no
\* closure to call.
PsListenerCall ==
    /\ PsIoAt("msg_call")
    /\ psIo.i <= Len(psIo.listeners)
    /\ psIo.listeners[psIo.i].does \in {"unsubscribe", "closure"}
    /\ psMutex = "none"
    /\ LET l == psIo.listeners[psIo.i] IN
       IF l.does = "closure"
          /\ (<<psIo.topic, l>> \notin psClosures \/ psIo.topic \notin DOMAIN psSubs)
       THEN /\ psIo' = [psIo EXCEPT !.i = psIo.i + 1,
                           !.lres = IF <<psIo.topic, l>> \in psClosures
                                    THEN "ok" ELSE psIo.lres]
            /\ UNCHANGED <<psSubs, psSent, psPubs, psSrv, psMutex>>
       ELSE /\ psSubs' = IF l.does = "unsubscribe"
                         THEN EraseTopic(psSubs, psIo.topic)
                         ELSE RemoveListener(psSubs, psIo.topic, l)
            /\ IF psIo.topic \notin DOMAIN psSubs' \/ l.does = "unsubscribe"
               THEN SendEnvelope(Envelope("unsubscribe", psIo.topic))
               ELSE UNCHANGED <<psSent, psPubs, psSrv>>
            /\ IF DOMAIN psSubs' = {}
               THEN /\ psMutex' = "io"
                    /\ psIo' = [psIo EXCEPT !.pc = "l_relock"]
               ELSE PsListenerReturn("ok") /\ UNCHANGED psMutex
    /\ UNCHANGED <<psReady, psManual, psHdl, psThread, psStopped, psConn,
                   psApp, psClosures, psOps, psCrashed>>
    /\ UNCHANGED <<rtVars, auxVars, obsVars>>

\* disconnect(), line 172, reached from the listener's call: the I/O thread
\* already owns mutex_.  Locking it again is undefined; the builds either
\* block the thread for ever or make lock() throw std::system_error, which
\* unwinds through the call into the catch of line 211.
PsListenerRelock ==
    /\ PsIoAt("l_relock")
    /\ \E outcome \in {"deadlock", "throw"} :
          IF outcome = "deadlock"
          THEN psIo' = [psIo EXCEPT !.pc = "stuck"] /\ UNCHANGED psMutex
          ELSE PsListenerReturn("error") /\ psMutex' = "none"
    /\ UNCHANGED <<psSubs, psReady, psManual, psHdl, psThread, psStopped,
                   psConn, psApp, psSent, psPubs, psSrv, psClosures, psOps,
                   psCrashed>>
    /\ UNCHANGED <<rtVars, auxVars, obsVars>>

PsListenerNext ==
    \/ PsListenerCall
    \/ PsListenerRelock

\* connection c fails to open: the fail handler (on_close) is entered
PsOnFail(c) ==
    /\ PsIoIdle /\ ~psStopped
    /\ psConn[c] = "connecting"
    /\ psConn' = [psConn EXCEPT ![c] = "closed"]
    /\ psIo' = [PsIdleIo EXCEPT !.pc = "close_lock", !.conn = c]
    /\ UNCHANGED <<psSubs, psReady, psManual, psMutex, psHdl, psThread,
                   psStopped, psApp, psSent, psPubs, psSrv, psClosures, psOps,
                   psCrashed>>
    /\ UNCHANGED <<rtVars, auxVars, obsVars>>

\* connection c is closed, by the server or the network or as the end of a
\* close the client asked for: the close handler (on_close) is entered
PsOnClose(c) ==
    /\ PsIoIdle /\ ~psStopped
    /\ psConn[c] \in {"open", "closing"}
    /\ psConn' = [psConn EXCEPT ![c] = "closed"]
    /\ psIo' = [PsIdleIo EXCEPT !.pc = "close_lock", !.conn = c]
    /\ UNCHANGED <<psSubs, psReady, psManual, psMutex, psHdl, psThread,
                   psStopped, psApp, psSent, psPubs, psSrv, psClosures, psOps,
                   psCrashed>>
    /\ UNCHANGED <<rtVars, auxVars, obsVars>>

\* on_close, lines 36-40: under the lock, ready_ = false, the manual-close
\* test and the sleep; the lock stays held for the call of ensureSocket()
PsCloseHandler ==
    /\ PsIoAt("close_lock")
    /\ psMutex = "none"
    /\ psReady' = FALSE
    /\ IF psManual
       THEN psIo' = PsIdleIo /\ UNCHANGED psMutex
       ELSE psIo' = [psIo EXCEPT !.pc = "close_ensure"] /\ psMutex' = "io"
    /\ UNCHANGED <<psSubs, psManual, psHdl, psThread, psStopped, psConn,
                   psApp, psSent, psPubs, psSrv, psClosures, psOps, psCrashed>>
    /\ UNCHANGED <<rtVars, auxVars, obsVars>>

\* on_close, line 41: ensureSocket() on the I/O thread.  ready_ is false, so
\* line 70 locks mutex_, which this thread owns since line 37: undefined for
\* a std::mutex.  The builds either block the thread for ever or make lock()
\* throw std::system_error, which leaves the handler and client_.run() and
\* ends the process in std::terminate.
PsCloseEnsure ==
    /\ PsIoAt("close_ensure")
    /\ \E outcome \in {"deadlock", "throw"} :
          IF outcome = "deadlock"
          THEN psIo' = [psIo EXCEPT !.pc = "stuck"]
               /\ UNCHANGED <<psMutex, psCrashed>>
          ELSE psIo' = [psIo EXCEPT !.pc = "thrown"]
               /\ psMutex' = "none" /\ psCrashed' = TRUE
    /\ UNCHANGED <<psSubs, psReady, psManual, psHdl, psThread, psStopped,
                   psConn, psApp, psSent, psPubs, psSrv, psClosures, psOps>>
    /\ UNCHANGED <<rtVars, auxVars, obsVars>>

\* client_.run() returns: the io_service was stopped by client_.stop(), or
\* it ran out of work because no connection is pending.  It stays stopped,
\* nothing in the service restarts it, and thread_ stays joinable.
PsRunExit ==
    /\ PsIoIdle
    /\ psStopped \/ PendingConns = {}
    /\ psThread' = "finished"
    /\ psStopped' = TRUE
    /\ UNCHANGED <<psSubs, psReady, psManual, psMutex, psHdl, psConn, psApp,
                   psIo, psSent, psPubs, psSrv, psClosures, psOps, psCrashed>>
    /\ UNCHANGED <<rtVars, auxVars, obsVars>>

\* the connection handlers: everything the I/O thread does but dispatch
\* messages
PsConnNext ==
    \/ \E c \in Conns : PsOnOpen(c)
    \/ PsOpenHandler
    \/ \E c \in Conns : PsOnFail(c)
    \/ \E c \in Conns : PsOnClose(c)
    \/ PsCloseHandler
    \/ PsCloseEnsure
    \/ PsRunExit

PsIoNext ==
    \/ PsConnNext
    \/ \E c \in Conns, t \in Topics : PsOnMessage(c, t, 0)
    \/ PsMessageSnapshot
    \/ PsMessageDispatch
    \/ PsMessageDone

PsNext == PsAppNext \/ PsIoNext

(***************************************************************************)
(* Specifications.                                                         *)
(***************************************************************************)
ObsInit ==
    /\ wire = <<>>
    /\ delivered = [i \in 1 .. MaxOps |-> <<>>]

(***************************************************************************)
(* RealtimeService::realtimeWrite, the SSE parser.  A byte is written as a *)
(* string: "nl" and "cr" are the line ends, "e", "d" and "i" stand for the *)
(* field names event, data and id, "x" for any other character.            *)
(***************************************************************************)
MaxStream == 5
Bytes == {"e", "d", ":", " ", "nl", "cr", "x"}
Streams == UNION {[1 .. n -> Bytes] : n \in 0 .. MaxStream}

\* the statics of lines 115 and 131-133; frames: the calls of handleEvent
\* made so far, each with eventName and data (the payload of lines 135-142
\* is computed from data alone)
ParserStart == [buffer |-> <<>>, event |-> <<"message">>, data |-> <<>>,
                id |-> <<>>, frames |-> <<>>]

\* std::string::find(c): the first index of c, 0 for npos
FirstIndex(str, c) ==
    IF \E i \in 1 .. Len(str) : str[i] = c
    THEN CHOOSE i \in 1 .. Len(str) :
            str[i] = c /\ \A j \in 1 .. (i - 1) : str[j] # c
    ELSE 0

\* lines 134-164: one line without its line end
ParseLine(st, line) ==
    IF line = <<>>
    THEN [st EXCEPT !.frames = Append(@, <<st.event, st.data>>),
                    !.event = <<"message">>, !.data = <<>>, !.id = <<>>]
    ELSE IF line[1] = ":" THEN st
    ELSE LET colon == FirstIndex(line, ":")
             field == IF colon = 0 THEN line ELSE SubSeq(line, 1, colon - 1)
             raw   == IF colon = 0 THEN <<>>
                      ELSE SubSeq(line, colon + 1, Len(line))
             value == IF raw # <<>> /\ raw[1] = " " THEN Tail(raw) ELSE raw
         IN  IF field = <<"e">>
             THEN [st EXCEPT !.event = IF value = <<>> THEN <<"message">>
                                       ELSE value]
             ELSE IF field = <<"d">>
                  THEN [st EXCEPT !.data = @ \o value \o <<"nl">>]
                  ELSE IF field = <<"i">> THEN [st EXCEPT !.id = value]
                       ELSE st

RECURSIVE ParseLines(_, _)
\* the loop of lines 119-165 over buf, the buffer from pos on: without a
\* line end the rest is kept (line 122), else the line is cut off, a
\* trailing "cr" dropped (127-129) and the line parsed
ParseLines(st, buf) ==
    LET newline == FirstIndex(buf, "nl") IN
    IF newline = 0 THEN [st EXCEPT !.buffer = buf]
    ELSE LET raw  == SubSeq(buf, 1, newline - 1)
             line == IF raw # <<>> /\ raw[Len(raw)] = "cr"
                     THEN SubSeq(raw, 1, Len(raw) - 1) ELSE raw
         IN  ParseLines(ParseLine(st, line),
                        SubSeq(buf, newline + 1, Len(buf)))

\* realtimeWrite with eventName, data and id as plain locals, initialised
\* in every call
realtimeWriteLocals(st, chunk) ==
    ParseLines([st EXCEPT !.event = <<"message">>, !.data = <<>>,
                          !.id = <<>>], st.buffer \o chunk)

\* realtimeWrite(ptr, size, nmemb, userdata), lines 112-167
realtimeWrite(st, chunk) == ParseLines(st, st.buffer \o chunk)

\* libcurl hands the next n bytes of the stream to realtimeWrite
ParseRead(n) ==
    /\ pFed + n <= Len(pWhole)
    /\ pSt' = realtimeWrite(pSt, SubSeq(pWhole, pFed + 1, pFed + n))
    /\ pFed' = pFed + n
    /\ pReads' = pReads + 1
    /\ UNCHANGED <<pWhole, auth, sentAuth, moreVars, rtVars, psVars, obsVars>>

\* no second thread and no second service
MoreInit ==
    /\ pConn = 0
    /\ rtApp2 = [pc |-> "idle", topic |-> <<>>, active |-> {}, calls |-> 0]
    /\ p2 = [whole |-> <<>>, fed |-> 0, frames |-> <<>>]
    /\ auth2 = [arg |-> <<>>, callbacks |-> <<>>, i |-> 0, notified |-> <<>>]

\* no stream, and the parser before the first byte
AuxInit ==
    /\ pWhole = <<>>
    /\ pFed = 0
    /\ pReads = 0
    /\ pSt = ParserStart
    /\ auth = AuthIdle
    /\ sentAuth = ""
    /\ MoreInit

\* the parser alone, before the first byte of a stream of up to MaxStream
\* bytes
ParseInit ==
    /\ RtInit /\ PsInit /\ ObsInit
    /\ pWhole \in Streams
    /\ pFed = 0
    /\ pReads = 0
    /\ pSt = ParserStart
    /\ auth = AuthIdle
    /\ sentAuth = ""
    /\ MoreInit

SpecParse == ParseInit /\ [][\E n \in 1 .. MaxStream : ParseRead(n)]_vars

Init == RtInit /\ PsInit /\ ObsInit /\ AuxInit
Next == RtNext \/ PsNext

\* both transports, one of them exercised per run
Spec == Init /\ [][Next]_vars
\* the SSE transport alone
SpecRT == Init /\ [][RtNext]_vars
\* the WebSocket transport alone
SpecPS == Init /\ [][PsNext]_vars

\* subscribe() with callable f as the callback, in the dispatch runs
RtDispatchSubscribe(t, f) ==
    /\ rtOps < MaxDispatchSubs
    /\ RtCallSubscribe(t, f.type, f.does)

PsDispatchSubscribe(t, f) ==
    /\ psOps < MaxDispatchSubs
    /\ PsCallSubscribe(t, f.type, f.does)

\* The dispatchers.  The application subscribes listeners of every
\* behaviour; every event carries a payload, the number of its arrival; the
\* connection, once made, stays.
DispatchNext ==
    \/ \E t \in Topics, f \in DispatchCallables : RtDispatchSubscribe(t, f)
    \/ RtWaitReady
    \/ RtWaitTimeout
    \/ RtUnwind
    \/ RtSubmitCheck
    \/ RtSubmitPost
    \/ RtSubscribeReturn
    \/ RtLoop
    \/ \E c \in ClientIds : RtRecvConnect(c)
    \/ RtHandleConnect
    \/ RtHandleSubmitCheck
    \/ RtHandleSnapshot
    \/ RtHandlePost
    \/ RtHandleHook
    \/ \E t \in Topics : RtRecvEvent(t, Len(wire) + 1)
    \/ RtEventSnapshot
    \/ RtEventDispatch
    \/ RtEventDone
    \/ RtListenerNext
    \/ \E t \in Topics, f \in DispatchCallables : PsDispatchSubscribe(t, f)
    \/ PsSubscribeRegister
    \/ PsEnsureCheck
    \/ PsEnsureConnect
    \/ PsEnsureWait
    \/ PsSubscribeSend
    \/ \E c \in Conns : PsOnOpen(c)
    \/ PsOpenHandler
    \/ \E c \in Conns, t \in Topics : PsOnMessage(c, t, Len(wire) + 1)
    \/ PsMessageSnapshot
    \/ PsMessageDispatch
    \/ PsMessageDone
    \/ PsListenerNext

SpecDispatch == Init /\ [][DispatchNext]_vars

\* The life cycle of the SSE connection: one topic, one listener type, no
\* events.
RtLifeNext ==
    \/ RtCallSubscribe(T1, "X", "return")
    \/ RtCallEnsureConnected
    \/ RtWaitReady
    \/ RtWaitTimeout
    \/ RtUnwind
    \/ RtSubmitCheck
    \/ RtSubmitPost
    \/ RtSubscribeReturn
    \/ RtCallUnsubscribeAll
    \/ RtCheckEmpty
    \/ RtCallDisconnect
    \/ RtDisconnectStop
    \/ RtDisconnectReady
    \/ RtJoin
    \/ RtConnNext

SpecRTLife == Init /\ [][RtLifeNext]_vars

\* The SSE connection with listeners that call back into the service:
\* listeners that record or call unsubscribe(topic), events with a payload,
\* and the connection loop with ensureConnected().
RtSelfStopNext ==
    \/ \E t \in Topics, f \in DispatchCallables :
          /\ f.does \in {"record", "unsubscribe"}
          /\ RtDispatchSubscribe(t, f)
    \/ RtCallEnsureConnected
    \/ RtWaitReady
    \/ RtWaitTimeout
    \/ RtUnwind
    \/ RtSubmitCheck
    \/ RtSubmitPost
    \/ RtSubscribeReturn
    \/ RtConnNext
    \/ \E t \in Topics : RtRecvEvent(t, Len(wire) + 1)
    \/ RtEventSnapshot
    \/ RtEventDispatch
    \/ RtEventDone
    \/ RtListenerNext

SpecRTSelfStop == Init /\ [][RtSelfStopNext]_vars

\* The SSE frames as handleEvent() sees them: recording listeners on a topic
\* and on the name PB_CONNECT, frames of both names in any order.
RtFramesNext ==
    \/ \E t \in {T1, PBConnect}, f \in DispatchCallables :
          /\ f.does = "record"
          /\ RtDispatchSubscribe(t, f)
    \/ RtWaitReady
    \/ RtWaitTimeout
    \/ RtUnwind
    \/ RtSubmitCheck
    \/ RtSubmitPost
    \/ RtSubscribeReturn
    \/ RtLoop
    \/ \E name \in {T1, PBConnect}, c \in ClientIds :
          RtRecvFrame(name, c, Len(wire) + 1)
    \/ RtHandleConnect
    \/ RtHandleSubmitCheck
    \/ RtHandleSnapshot
    \/ RtHandlePost
    \/ RtHandleHook
    \/ RtEventSnapshot
    \/ RtEventDispatch
    \/ RtEventDone

SpecRTFrames == Init /\ [][RtFramesNext]_vars

(***************************************************************************)
(* Properties of the SSE transport.                                        *)
(***************************************************************************)
\* Connected, and neither thread is inside an operation or a handler
RtQuiescentConnected ==
    /\ ~rtCrashed
    /\ rtReady /\ rtClientId # ""
    /\ rtApp.pc = "idle"
    /\ rtW.pc = "w_stream"

\* C1: while Connected, after any sequence of subscribe, unsubscribe,
\* unsubscribeByPrefix and closure calls, the subscriptions list of the most
\* recent POST equals the set of topics that have at least one listener.
C1_LastPostIsRegistry ==
    (RtQuiescentConnected /\ ActiveTopics(rtSubs) # {})
        => (rtPost.sent /\ rtPost.subs = ActiveTopics(rtSubs))

\* C5 as stated: handling PB_CONNECT with clientId = c sets Connected, records
\* clientId() = c and sends one resubmission POST carrying c and every topic
\* that has a listener.  Checked where handleEvent() is about to return.
C5_ConnectAlwaysPosts ==
    (rtW.pc = "h_hook" /\ rtW.payload.clientId # "")
        => /\ rtClientId = rtW.payload.clientId
           /\ rtW.sent.sent
           /\ rtW.sent.clientId = rtW.payload.clientId
           /\ rtW.sent.subs = rtW.active

\* C5 as amended: PB_CONNECT with clientId = c sets ready_ and records
\* clientId() = c; one resubmission POST, carrying c and the topics that have
\* a listener when the registry is read, is sent exactly when c is not
\* empty, ready_ is still set when the resubmission starts and at least one
\* topic has a listener; otherwise no POST is sent.
C5_ConnectPostsWhenTopics ==
    /\ [](rtW.pc = "h_hook" =>
            /\ rtClientId = rtW.payload.clientId
            /\ rtW.sent.sent <=> (rtW.chk /\ rtW.active # {})
            /\ rtW.sent.sent => /\ rtW.sent.clientId = rtW.payload.clientId
                                /\ rtW.sent.clientId # ""
                                /\ rtW.sent.subs = rtW.active)
    /\ [][/\ (rtW.pc = "h_id" /\ rtW'.pc # "h_id")
                => (rtReady' /\ rtClientId' = rtW.payload.clientId)
          /\ (rtW.pc = "h_chk" /\ rtW'.pc # "h_chk")
                => (rtW'.chk <=> (rtReady /\ rtW.payload.clientId # ""))
          /\ (rtW.pc = "h_snap" /\ rtW'.pc # "h_snap")
                => rtW'.active = ActiveTopics(rtSubs)
          /\ (rtW.pc = "h_post" /\ rtW'.pc # "h_post")
                => rtPost' = rtW'.sent]_vars

\* C5 witness: a PB_CONNECT carrying "c1" was handled with both topics
\* registered, and the POST carrying "c1" and both topics was sent
C5_Witness ==
    /\ rtW.pc = "h_hook"
    /\ rtW.payload.clientId = "c1"
    /\ rtW.sent = [sent |-> TRUE, clientId |-> "c1", subs |-> Topics]

\* C6: a stream termination without explicit stop, with at least one
\* subscription, invokes the disconnect hook with the registered topics in
\* state Disconnected with ClientId cleared, and the loop then goes on by
\* itself to the next connection attempt.
C6_TerminationReconnects ==
    /\ [](rtW.pc = "w_hcall" => (~rtReady /\ rtClientId = ""))
    /\ [][/\ (rtW.pc = "w_hsnap" /\ rtW'.pc # "w_hsnap")
                => rtW'.active = DOMAIN rtSubs
          /\ (rtW.pc = "w_hcall" /\ rtW.active # {} /\ rtW' # rtW)
                => (rtW'.pc = "w_loop" /\ ~rtCrashed')]_vars

\* C9: disconnect() returns with the worker joined for every interleaving:
\* join() never waits for a worker that itself waits for the registry lock
\* held by the thread that called disconnect().
C9_DisconnectReturns ==
    ~(/\ rtApp.pc = "join"
      /\ rtMutex.owner = "app"
      /\ rtW.pc \in {"h_snap", "e_snap", "w_hsnap"})

(***************************************************************************)
(* Properties of the WebSocket transport.                                  *)
(***************************************************************************)
\* C2: between two calls, whether they returned or failed, the topics with a
\* subscribe envelope sent and no later unsubscribe envelope are exactly the
\* topics that have at least one listener.
C2_SentIsRegistry ==
    (psApp.pc = "idle" /\ ~psCrashed) => psSent = ActiveTopics(psSubs)

\* C4: removing a topic's last listener while the socket is ready sends the
\* unsubscribe envelope of the topic, and if the registry is then empty the
\* socket is closed and the removing call returns.
C4_LastListenerRemoval ==
    [][/\ (/\ psApp.pc \in {"c_lock", "u_lock"}
           /\ psApp.kind \in {"closure", "unsubscribe"}
           /\ psApp' # psApp
           /\ psApp.topic \in DOMAIN psSubs /\ psApp.topic \notin DOMAIN psSubs'
           /\ psReady /\ psHdl \in Conns /\ psConn[psHdl] = "open")
            => psApp.topic \notin psSrv'[psHdl]
       /\ (/\ psApp.pc = "relock" /\ psApp.last /\ psReady
           /\ psApp.kind \in {"closure", "unsubscribe"}
           /\ psApp' # psApp)
            => (psApp'.pc # "stuck" /\ psApp'.res # "error" /\ ~psReady')]_vars

\* C7: on a close or failure that the application did not ask for, on_close
\* runs ensureSocket() again, which opens a new connection that can become
\* ready without any application call.
C7_CloseReconnects ==
    [][(psIo.pc = "close_ensure" /\ psIo' # psIo)
        => (/\ psIo'.pc \notin {"stuck", "thrown"}
            /\ \E c \in Conns : psConn'[c] = "connecting")]_vars

\* C8: after a close that the application did not ask for, the socket is
\* reconnected and a subscribe envelope is sent on the new socket for every
\* topic that has at least one listener.
C8_ReconnectResubscribes ==
    (psIo.pc = "close_ensure" /\ ActiveTopics(psSubs) # {})
        ~> (/\ psReady /\ psHdl \in Conns /\ psConn[psHdl] = "open"
            /\ ActiveTopics(psSubs) \subseteq psSrv[psHdl])

\* C10: disconnect() returns with the I/O thread joined for every
\* interleaving: join() never waits for an I/O thread whose handler waits for
\* the mutex held by the thread inside disconnect().
C10_DisconnectReturns ==
    ~(/\ psApp.pc = "d_join"
      /\ psMutex = "app"
      /\ psThread = "running"
      /\ psIo.pc \in {"open_lock", "msg_lock", "close_lock"})

(***************************************************************************)
(* Properties of both transports.                                          *)
(***************************************************************************)
\* every registration of old other than listener l on topic t is still in new
OthersKept(old, new, t, l) ==
    \A u \in DOMAIN old : \A i \in 1 .. Len(old[u]) :
        (u # t \/ old[u][i] # l)
            => (u \in DOMAIN new /\ \E j \in 1 .. Len(new[u]) : new[u][j] = old[u][i])

\* C3: calling the closure returned for one listener removes that one
\* registration; every other listener of the topic stays registered (and so
\* is in every later dispatch snapshot of the topic).
C3_ClosureRemovesOnlyItsOwn ==
    [][/\ (rtApp.pc = "idle" /\ rtApp'.kind = "closure")
            => OthersKept(rtSubs, rtSubs', rtApp'.topic, rtApp'.lis)
       /\ (psApp.pc = "c_lock" /\ psApp' # psApp)
            => OthersKept(psSubs, psSubs', psApp.topic, psApp.lis)]_vars

\* the threads take their steps: a call or handler that can continue does
FairSpecPS == SpecPS /\ WF_vars(PsAppNext) /\ WF_vars(PsIoNext)

(***************************************************************************)
(* Properties of the dispatchers.                                          *)
(***************************************************************************)
\* C11: a listener invoked on the background thread may call unsubscribe or
\* its own closure from inside its callback, also when this removes the last
\* listener of the registry: the call does not block and it returns.
C11_ListenerMayCallBack ==
    [][/\ (rtW.pc \in {"l_chk", "l_post", "l_empty"} /\ rtW'.pc = "e_call")
            => rtW'.lres = "ok"
       /\ (psIo.pc = "l_relock" /\ psIo' # psIo)
            => (psIo'.pc = "msg_call" /\ psIo'.lres = "ok")]_vars

\* the elements of a sequence
Range(seq) == {seq[k] : k \in 1 .. Len(seq)}

\* every recording listener of the snapshot was given the event <<t, d>>
AllInvoked(listeners, t, d) ==
    \A k \in 1 .. Len(listeners) :
        listeners[k].does = "record"
            => <<t, d>> \in Range(delivered[listeners[k].id])

\* C12: in both dispatchers an exception thrown by a listener is discarded:
\* the loop goes on with the next listener of the snapshot, so that when the
\* loop is over every listener of the snapshot was invoked with the event,
\* and the background thread goes back to reading the next event.
C12_ListenerExceptionDiscarded ==
    /\ []((rtW.pc = "e_call" /\ rtW.i > Len(rtW.listeners))
            => AllInvoked(rtW.listeners, rtW.topic, rtW.data))
    /\ []((psIo.pc = "msg_call" /\ psIo.i > Len(psIo.listeners))
            => AllInvoked(psIo.listeners, psIo.topic, psIo.data))
    /\ [][/\ (/\ rtW.pc = "e_call" /\ rtW.i <= Len(rtW.listeners)
               /\ rtW.listeners[rtW.i].does = "throw" /\ rtW' # rtW)
                => (rtW'.pc = "e_call" /\ rtW'.i = rtW.i + 1 /\ ~rtCrashed')
          /\ (/\ psIo.pc = "msg_call" /\ psIo.i <= Len(psIo.listeners)
               /\ psIo.listeners[psIo.i].does = "throw" /\ psIo' # psIo)
                => (psIo'.pc = "msg_call" /\ psIo'.i = psIo.i + 1 /\ ~psCrashed')
          /\ (rtW.pc = "e_call" /\ rtW.i > Len(rtW.listeners) /\ rtW' # rtW)
                => (rtW'.pc = "w_stream" /\ ~rtCrashed')
          /\ (psIo.pc = "msg_call" /\ psIo.i > Len(psIo.listeners) /\ psIo' # psIo)
                => (psIo'.pc = "run" /\ ~psCrashed')]_vars

\* C12 witness: the dispatch of an event is over whose snapshot held a
\* throwing listener followed by a recording listener, which has the event
C12_Witness ==
    /\ rtW.pc = "e_call" /\ rtW.i = 3 /\ rtW.data # 0
    /\ rtW.listeners[1].does = "throw"
    /\ rtW.listeners[2].does = "record"
    /\ <<rtW.topic, rtW.data>> \in Range(delivered[rtW.listeners[2].id])

\* the log holds events as they arrived, each once, in arrival order
InWireOrder(log) ==
    \A k \in 1 .. Len(log) :
        /\ log[k][2] \in 1 .. Len(wire)
        /\ wire[log[k][2]] = log[k]
        /\ k > 1 => log[k - 1][2] < log[k][2]

\* the listeners of registry subs were given events of their own topic only
OwnTopicOnly(subs) ==
    \A t \in DOMAIN subs : \A k \in 1 .. Len(subs[t]) :
        \A e \in Range(delivered[subs[t][k].id]) : e[1] = t

C14_PublishConnectsFirst ==
    [][/\ (/\ psApp.kind = "publish" /\ psApp.pc = "es_wait"
           /\ psApp' # psApp /\ psApp'.res = "error")
            => psConn[psHdl] # "open"
       /\ (psApp.pc = "p_send" /\ psApp' # psApp)
            => /\ psPubs' = Append(psPubs, [topic |-> psApp.topic,
                                            data |-> psApp.data])
               /\ psApp'.res = "ok"
               /\ psApp'.ack = [topic |-> psApp.topic, data |-> psApp.data]]_vars

\* C15: disconnect() sets the manual-close flag in the step in which it
\* closes the socket and clears ready_; while the flag is set the socket is
\* not ready and no close or fail handler is on its way to ensureSocket();
\* the flag is cleared, and a connection is created, only by the
\* ensureSocket() of a later subscribe or publish call.
C15_ManualCloseNoReconnect ==
    /\ [](psManual => (~psReady /\ psIo.pc # "close_ensure"))
    /\ [][/\ (psApp.pc = "d_lock" /\ psApp' # psApp)
                => /\ psManual' /\ ~psReady'
                   /\ (psReady /\ psHdl \in Conns /\ psConn[psHdl] = "open")
                        => psConn'[psHdl] = "closing"
          /\ (psManual /\ (~psManual' \/ UnusedConns' # UnusedConns))
                => (/\ psApp.pc = "es_lock"
                    /\ psApp.kind \in {"subscribe", "publish"}
                    /\ psApp'.pc = "es_wait")]_vars

\* C15 witness: a manual disconnect() of a ready socket has returned
C15_Witness ==
    /\ psManual /\ ~psReady
    /\ psApp.pc = "idle" /\ psApp.res = "ok"
    /\ psThread = "none"
    /\ psHdl \in Conns /\ psConn[psHdl] = "closing"

\* C18: a step of ensureSocket() that finds ready_ set, at the test without
\* the lock or at the test under it, returns to the caller and changes
\* neither ready_, manual_close_, hdl_, the connections, the I/O thread nor
\* the registry, and leaves the mutex free.
C18_EnsureSocketIdempotent ==
    [][(psApp.pc \in {"es_chk", "es_lock"} /\ psReady /\ psApp' # psApp)
          => /\ psApp'.pc = PsAfterEnsure(psApp.kind)
             /\ UNCHANGED <<psReady, psManual, psHdl, psConn, psThread,
                            psSubs, psMutex>>]_vars

\* C18 witness: publish is past an ensureSocket() that found the socket ready
C18_Witness ==
    /\ psApp.pc = "p_send" /\ psReady
    /\ psHdl \in Conns /\ psConn[psHdl] = "open"

(***************************************************************************)
(* Further properties of the SSE transport.                                *)
(***************************************************************************)
\* C16: when disconnect() returns there is no worker, stop_ is set and
\* ready_ is clear; without a worker the state is Disconnected, and a worker
\* is started only by a subscribe or ensureConnected call; once stop_ is set
\* the loop test opens no stream and the test after a stream ends the thread
\* without the disconnect hook.
C16_StaysDisconnected ==
    /\ [](rtW.pc = "none" => ~rtReady)
    /\ [][/\ (rtApp.pc = "join" /\ rtApp'.pc = "idle")
                => (rtW'.pc = "none" /\ rtStop' /\ ~rtReady')
          /\ (rtW.pc = "none" /\ rtW'.pc # "none")
                => (/\ rtApp.pc = "idle"
                    /\ rtApp'.kind \in {"subscribe", "ensureConnected"})
          /\ (rtStop /\ rtW.pc \in {"w_loop", "w_stop"})
                => rtW'.pc \in {rtW.pc, "w_exit"}]_vars

\* C16 witness: disconnect() has returned on a service that had been
\* connected and had sent its subscriptions
C16_Witness ==
    /\ rtApp.pc = "idle" /\ rtW.pc = "none"
    /\ rtStop /\ ~rtReady /\ rtPost.sent /\ rtHookSet

\* C17: a call leaves the wait of ensureConnected() normally only when
\* ready_ is set; when it leaves it with the connection error, the step
\* changes neither the worker nor stop_, and the connection loop is alive
\* behind it: a worker exists and has not left run().
C17_TimeoutLeavesLoopRunning ==
    [][/\ (rtApp.pc = "wait" /\ rtApp' # rtApp /\ rtApp'.pc # "thrown")
            => rtReady
       /\ (rtApp.pc = "wait" /\ rtApp'.pc = "thrown")
            => (/\ ~rtReady
                /\ rtW' = rtW /\ rtStop' = rtStop
                /\ rtW.pc \notin {"none", "w_exit"})]_vars

\* topic t is prefix p followed by some rest
HasPrefix(t, p) == \E k \in 0 .. Len(t) : SubSeq(t, 1, k) = p

\* C22: unsubscribeByPrefix(prefix) removes the topics that start with
\* prefix and no other, and leaves the other listener lists as they were;
\* after this first step the call removes nothing more; it sends a POST only
\* from its one submitSubscriptions(), carrying the topics then registered,
\* and goes on from there to the empty test or fails, without a second POST.
C22_PrefixFrame ==
    [][/\ (rtApp.pc = "idle" /\ rtApp'.kind = "unsubscribeByPrefix")
            => /\ DOMAIN rtSubs' =
                      {t \in DOMAIN rtSubs : ~HasPrefix(t, rtApp'.topic)}
               /\ \A u \in DOMAIN rtSubs' : rtSubs'[u] = rtSubs[u]
               /\ rtPost' = rtPost
       /\ rtApp.kind = "unsubscribeByPrefix"
            => /\ rtSubs' = rtSubs
               /\ (rtApp.pc = "post" /\ rtApp' # rtApp)
                    => /\ rtPost'.subs = DOMAIN rtSubs
                       /\ rtApp'.pc \in {"empty", "thrown"}
               /\ (rtApp'.pc = "post" /\ rtApp' # rtApp) => rtApp.pc = "chk"
               /\ (rtApp'.pc = "chk") => rtApp.pc = "chk"
               /\ (rtApp.pc # "post" /\ rtW.pc \notin {"h_post", "l_post"})
                    => rtPost' = rtPost]_vars

\* C22 witness: unsubscribeByPrefix has removed a topic whose subscribe had
\* returned, another topic remains, and the call's POST carried the rest
C22_Witness ==
    /\ rtApp.kind = "unsubscribeByPrefix" /\ rtApp.pc = "empty"
    /\ \E c \in rtClosures : HasPrefix(c[1], rtApp.topic)
    /\ DOMAIN rtSubs # {}
    /\ rtReady /\ rtPost.sent /\ rtPost.subs = DOMAIN rtSubs

\* C23: the POST of a subscribe or unsubscribe call that ends with an abort
\* or with success lets the call go on to its return; a POST that ends with
\* another error leaves the call by the exception, which is not caught on
\* the way to the caller; a subscribe call returns its closure only when no
\* POST of it failed with such an error.
C23_PostErrors ==
    /\ [](rtApp.pc \in {"ret", "empty", "disc1", "disc2", "join"}
            => rtApp.post \in {"none", "ok", "abort"})
    /\ [][/\ (rtApp.pc = "post" /\ rtApp' # rtApp)
                => /\ rtApp'.post \in PostResults
                   /\ rtApp'.post = "error" => rtApp'.pc = "thrown"
                   /\ rtApp'.post \in {"ok", "abort"}
                        => rtApp'.pc = RtAfterSubmit(rtApp.kind)
          /\ (rtApp.pc = "thrown" /\ rtApp' # rtApp)
                => (rtApp'.pc = "idle" /\ rtClosures' = rtClosures)]_vars

\* C23 witness: a subscribe call is past a POST that was aborted and is
\* about to return its closure
C23_Witness ==
    /\ rtApp.kind = "subscribe" /\ rtApp.pc = "ret"
    /\ rtApp.post = "abort"

\* C24: no listener is ever invoked with a PB_CONNECT frame, whatever the
\* registry holds, and handleEvent() returns to the stream after the hook
\* of such a frame.
C24_ConnectFrameNotDelivered ==
    /\ [](\A id \in DOMAIN delivered : \A i \in 1 .. Len(delivered[id]) :
             delivered[id][i][1] # PBConnect)
    /\ [][(rtW.pc = "h_hook" /\ rtW' # rtW) => rtW'.pc = "w_stream"]_vars

\* C24 witness: a PB_CONNECT frame with a payload is being handled while a
\* recording listener is registered on the topic named PB_CONNECT
C24_Witness ==
    /\ rtW.pc = "h_hook" /\ rtW.topic = PBConnect /\ rtW.data # 0
    /\ PBConnect \in DOMAIN rtSubs
    /\ rtSubs[PBConnect][1].does = "record"

\* C25: whatever the reads were, the parser's state after the first pFed
\* bytes of a stream, its emitted frames included, is the one a single read
\* of these bytes produces; and a read that emits no frame only appends to
\* the accumulated data.
C25_ReadBoundariesInvisible ==
    /\ [](pSt = realtimeWrite(ParserStart, SubSeq(pWhole, 1, pFed)))
    /\ [][pSt'.frames = pSt.frames
            => SubSeq(pSt'.data, 1, Len(pSt.data)) = pSt.data]_vars

\* C25 witness: a frame with an event name has been emitted from a stream
\* that arrived in more than one read
C25_Witness ==
    /\ pReads >= 2 /\ pFed = Len(pWhole)
    /\ pSt.frames = << <<(<<"x">>), <<>>>> >>

\* C26: a submitSubscriptions() of the application that finds ready_ clear
\* or no ClientId goes on without a POST and changes nothing; the handler
\* of PB_CONNECT snapshots the whole registry, whatever was registered
\* before, and its POST carries that snapshot.
C26_DeferredUntilConnect ==
    [][/\ (rtApp.pc = "chk" /\ (~rtReady \/ rtClientId = "") /\ rtApp' # rtApp)
            => /\ rtApp'.pc = RtAfterSubmit(rtApp.kind)
               /\ UNCHANGED <<rtSubs, rtPost, rtClientId, rtReady, rtStop, rtW>>
       /\ (rtW.pc = "h_snap" /\ rtW' # rtW)
            => (rtW'.active = DOMAIN rtSubs /\ rtPost' = rtPost)
       /\ (rtW.pc = "h_post" /\ rtW' # rtW)
            => (rtPost'.sent /\ rtPost'.subs = rtW.active
                /\ rtPost'.clientId = rtClientId)]_vars

\* C26 witness: the handler of PB_CONNECT is about to POST a topic that was
\* registered by a subscribe call that has not returned a closure
C26_Witness ==
    /\ rtW.pc = "h_post" /\ rtW.active # {}
    /\ rtClosures = {} /\ rtApp.pc = "idle"

(***************************************************************************)
(* Properties of the registries of both transports.                        *)
(***************************************************************************)
\* C19: in every reachable state every topic entry of either registry
\* holds at least one listener.
C19_NoEmptyEntry ==
    /\ \A t \in DOMAIN rtSubs : rtSubs[t] # <<>>
    /\ \A t \in DOMAIN psSubs : psSubs[t] # <<>>

\* C19 witness: a closure call has removed the last listener of its topic,
\* whose entry is gone, while another topic is still registered
C19_Witness ==
    /\ rtApp.kind = "closure" /\ rtApp.pc = "chk"
    /\ rtApp.topic \notin DOMAIN rtSubs
    /\ DOMAIN rtSubs # {}

\* C20: when an unsubscribe call or a closure call ends and leaves the
\* registry empty, the connection is torn down: the SSE transport has no
\* worker and is not ready, the WebSocket transport is not ready and its
\* connection is not open.
C20_EmptyRegistryTornDown ==
    [][/\ (/\ rtApp.pc # "idle" /\ rtApp'.pc = "idle"
           /\ rtApp.kind \in {"unsubscribe", "unsubscribeAll",
                             "unsubscribeByPrefix", "closure"}
           /\ DOMAIN rtSubs' = {})
            => (rtW'.pc = "none" /\ ~rtReady')
       /\ (/\ psApp.pc # "idle" /\ psApp'.pc = "idle"
           /\ psApp.kind \in {"unsubscribe", "unsubscribeAll", "closure"}
           /\ DOMAIN psSubs' = {})
            => (~psReady' /\ \A c \in Conns : psConn'[c] # "open")]_vars

\* every entry of old but that of topic t is in new with the same listeners,
\* and new holds no other entry
OnlyTopicRemoved(old, new, t) ==
    /\ DOMAIN new = (DOMAIN old) \ {t}
    /\ \A u \in DOMAIN new : new[u] = old[u]

AuthNext ==
    \/ RtLifeNext
    \/ \E t \in Topics, d \in PubData : PsCallPublish(t, d)
    \/ PsPublishSend
    \/ PsEnsureCheck
    \/ PsEnsureConnect
    \/ PsEnsureWait
    \/ \E c \in Conns : PsOnOpen(c)
    \/ PsOpenHandler
    \/ \E c \in Conns : PsOnFail(c)
    \/ PsCloseHandler
    \/ PsCloseEnsure
    \/ \E tok \in AuthTokens : AuthSaveBegin(tok, "r1")
    \/ AuthSaveEnd

SpecAuth == Init /\ [][AuthNext]_vars

\* C27: each connection attempt of either transport carries the token the
\* store holds at that time if that token is valid, and no credential
\* otherwise; while a save() is replacing the token, the attempt carries the
\* replaced token or the new one.  It never carries any other value.
C27_TokenReadAtEachAttempt ==
    [][/\ (rtW.pc = "w_loop" /\ rtW'.pc = "w_stream")
          => IF auth.write = <<>>
             THEN sentAuth' = IF isValid(auth.token) THEN auth.token ELSE ""
             ELSE sentAuth' \in {"", auth.token, auth.write[1]}
       /\ (psApp.pc = "es_lock" /\ psApp'.pc = "es_wait")
          => sentAuth' = IF isValid(auth.token) THEN auth.token ELSE ""]_vars

(***************************************************************************)
(* Cancellation of the SSE loop.                                           *)
(***************************************************************************)
\* the worker thread takes the steps that are its own: libcurl calls the
\* progress callback while the transfer lasts, and run() and handleEvent()
\* go on when they can; the frames and the end of the stream are the
\* server's
FairSpecRTLife ==
    SpecRTLife /\ WF_vars(\/ RtLoop \/ RtHandleConnect \/ RtHandleSubmitCheck
                          \/ RtHandleSnapshot \/ RtHandlePost \/ RtHandleHook
                          \/ RtProgressAbort \/ RtAfterPerform
                          \/ RtAfterStopTest \/ RtHookSnapshot \/ RtHookCall)

\* C28: stop_ stays set while the worker lives; a worker that is inside the
\* streaming read when stop_ is set leaves run(): from the read, and from
\* the handling of a PB_CONNECT frame that arrived before the abort, it
\* goes through the abort and the test of line 213 only, never to the loop
\* test that opens another stream nor to the disconnect hook of lines
\* 216-221, and it gets there without the server ending the stream.
C28_StopEndsRead ==
    /\ [][/\ (rtStop /\ rtW.pc # "none") => rtStop'
          /\ (rtStop /\ rtW.pc \in {"w_stream", "h_id", "h_chk", "h_snap",
                                    "h_post", "h_hook", "w_after", "w_stop"})
                => rtW'.pc \in {"w_stream", "h_id", "h_chk", "h_snap",
                                "h_post", "h_hook", "w_after", "w_stop",
                                "w_exit"}]_vars
    /\ (rtStop /\ rtW.pc = "w_stream") ~> (rtW.pc \in {"w_exit", "none"})

(***************************************************************************)
(* The AuthStore alone.                                                    *)
(***************************************************************************)
\* listeners that return or throw are added, and save() and clear() (which
\* is save("", none)) are called, one call at a time
AuthStoreNext ==
    \/ \E does \in {"return", "throw"} : AuthAddListener(does)
    \/ \E tok \in AuthTokens, rec \in {"none", "r1"} : AuthSaveBegin(tok, rec)
    \/ AuthSaveEnd
    \/ AuthNotify

SpecAuthStore == Init /\ [][AuthStoreNext]_vars

\* C29: save(token, record) stores both and takes the listeners registered
\* at that moment; each pass of its loop runs with the lock released,
\* invokes the next of them with the stored token and record, whether or
\* not an earlier one threw, and leaves token and record as stored; when
\* the call is over every one of them has been invoked once, in order.
C29_SaveNotifiesAll ==
    /\ [](auth.i = 0 /\ auth.write = <<>>
            => /\ Len(auth.notified) = Len(auth.callbacks)
               /\ \A k \in 1 .. Len(auth.callbacks) :
                     auth.notified[k] =
                        <<auth.callbacks[k].id, auth.token, auth.record>>)
    /\ [][/\ auth.write # <<>> /\ auth'.write = <<>>
             => /\ auth'.token = auth.write[1]
                /\ auth'.record = auth.write[2]
                /\ auth'.callbacks = auth.listeners
          /\ auth.i > 0
             => /\ auth.write = <<>>
                /\ auth'.token = auth.token /\ auth'.record = auth.record
                /\ auth'.callbacks = auth.callbacks
                /\ auth'.listeners # auth.listeners
                   \/ /\ auth'.notified = Append(auth.notified,
                            <<auth.callbacks[auth.i].id, auth.token,
                              auth.record>>)
                      /\ auth'.i = IF auth.i = Len(auth.callbacks)
                                   THEN 0 ELSE auth.i + 1]_vars

\* C29 witness: save("t1", r1) is over; the first of its two listeners
\* threw, both were invoked, and the token and the record are stored
C29_Witness ==
    /\ auth.i = 0 /\ auth.write = <<>>
    /\ auth.token = "t1" /\ auth.record = "r1"
    /\ Len(auth.callbacks) = 2
    /\ auth.callbacks[1].does = "throw"
    /\ auth.caught = 1
    /\ Len(auth.notified) = 2

(***************************************************************************)
(* Inbound payloads of the WebSocket transport.                            *)
(***************************************************************************)
\* the WebSocket transport, with a server that also sends payloads that
\* are no message objects
SpecPSRaw ==
    Init /\ [][\/ PsNext
               \/ \E c \in Conns, m \in InboundMalformed : PsOnRaw(c, m)
               \/ PsMessageParse]_vars

\* C30: from the arrival of a payload that is no message object to the
\* return of the message handler, the steps of the handler invoke no
\* listener and change neither the registry nor anything of the connection
\* state; the handler returns to client_.run(), no exception leaves it.
C30_MalformedDropped ==
    /\ [](psIo.raw # <<>> => (psIo.pc \in {"msg_parse", "msg_lock", "msg_call"}
                              /\ psIo.listeners = <<>>))
    /\ [][(psIo.raw # <<>> /\ psIo' # psIo)
            => /\ delivered' = delivered
               /\ UNCHANGED <<psSubs, psReady, psManual, psHdl, psConn,
                              psThread, psStopped, psCrashed, psMutex,
                              psSent, psPubs, psSrv, psClosures>>
               /\ psIo'.pc \in {"msg_lock", "msg_call", "run"}
               /\ psIo'.pc = "run" => psIo' = PsIdleIo]_vars

\* C30 witness: a listener is registered on a/x and the handler is about
\* to drop an object for a/x whose "id" is no string
C30_Witness ==
    /\ psIo.pc = "msg_parse"
    /\ psIo.raw[1].topicIs = "string" /\ psIo.raw[1].topic = T1
    /\ T1 \in DOMAIN psSubs
    /\ psReady

(***************************************************************************)
(* RecordService: the realtime calls of one collection.  The collection    *)
(* names are "a" and "ab", the one topic of a collection is "x".           *)
(***************************************************************************)
\* collection_id_or_name_ + "/" + topic
FullTopic(c, topic) == c \o <<0>> \o topic

\* RecordService::subscribe(), lines 18-29
RecordSubscribe(c, f) == RtCallSubscribe(FullTopic(c, <<9>>), f.type, f.does)

\* RecordService::unsubscribe(), lines 31-38, with a topic and without
RecordUnsubscribe(c, all) ==
    IF all THEN RtCallUnsubscribeByPrefix(c)
    ELSE RtCallUnsubscribe(FullTopic(c, <<9>>))

SpecRecord ==
    Init /\ [][\/ \E c \in Prefixes, f \in PlainCallables : RecordSubscribe(c, f)
               \/ \E c \in Prefixes, all \in BOOLEAN : RecordUnsubscribe(c, all)
               \/ RtWaitReady \/ RtWaitTimeout \/ RtUnwind \/ RtSubmitCheck
               \/ RtSubmitPost \/ RtSubscribeReturn \/ RtCheckEmpty
               \/ RtDisconnectStop \/ RtDisconnectReady \/ RtJoin
               \/ RtWorkerNext]_vars

\* C31: unsubscribe() of the RecordService of collection c removes the
\* topics "c/<suffix>", and only them: the topics of every other collection
\* stay registered with their listeners.
C31_CollectionScoped ==
    [][(rtApp.pc = "idle" /\ rtApp'.kind = "unsubscribeByPrefix")
          => LET c == rtApp'.topic
                 Own == {t \in DOMAIN rtSubs :
                            /\ Len(t) > Len(c)
                            /\ SubSeq(t, 1, Len(c) + 1) = c \o <<0>>}
             IN /\ DOMAIN rtSubs' = (DOMAIN rtSubs) \ Own
                /\ \A u \in DOMAIN rtSubs' : rtSubs'[u] = rtSubs[u]]_vars

(***************************************************************************)
(* Calls that fail.                                                        *)
(***************************************************************************)
\* C32: when a subscribe call of either transport is left by an exception,
\* the listener it was given is in no listener list of the registry.
C32_FailedSubscribeRollsBack ==
    [][/\ (rtApp.kind = "subscribe" /\ rtApp.pc = "thrown" /\ rtApp'.pc = "idle")
            => \A t \in DOMAIN rtSubs' : \A k \in 1 .. Len(rtSubs'[t]) :
                  rtSubs'[t][k].id # rtApp.lis.id
       /\ (psApp.kind = "subscribe" /\ psApp'.pc = "idle" /\ psApp'.res = "error")
            => \A t \in DOMAIN psSubs' : \A k \in 1 .. Len(psSubs'[t]) :
                  psSubs'[t][k].id # psApp.lis.id]_vars

(***************************************************************************)
(* RealtimeService: two application threads.  The first makes the calls    *)
(* modelled above; the second calls unsubscribe(topic).  It takes mutex_   *)
(* for the erase and for the snapshot only, each within one step.          *)
(***************************************************************************)
\* unsubscribe(topic), lines 38-45, on the second thread
Rt2CallUnsubscribe(t) ==
    /\ ~rtCrashed
    /\ rtApp2.pc = "idle" /\ rtApp2.calls < MaxOps
    /\ rtMutex.owner = "none"
    /\ rtSubs' = EraseTopic(rtSubs, t)
    /\ rtApp2' = [rtApp2 EXCEPT !.pc = "chk", !.topic = t,
                                !.calls = @ + 1]
    /\ UNCHANGED <<rtClientId, rtReady, rtStop, rtMutex, rtApp, rtW, rtPost,
                   rtHookSet, rtClosures, rtOps, rtCrashed>>
    /\ UNCHANGED <<psVars, obsVars, pWhole, pFed, pReads, pSt, auth, sentAuth,
                   pConn, p2, auth2>>

\* submitSubscriptions(), lines 258-266, on the second thread
Rt2SubmitCheck ==
    /\ ~rtCrashed
    /\ rtApp2.pc = "chk"
    /\ (rtReady /\ rtClientId # "") => rtMutex.owner = "none"
    /\ rtApp2' = IF ~rtReady \/ rtClientId = "" \/ ActiveTopics(rtSubs) = {}
                 THEN [rtApp2 EXCEPT !.pc = "empty"]
                 ELSE [rtApp2 EXCEPT !.pc = "post",
                                     !.active = ActiveTopics(rtSubs)]
    /\ UNCHANGED <<rtVars, psVars, obsVars, pWhole, pFed, pReads, pSt, auth,
                   sentAuth, pConn, p2, auth2>>

\* submitSubscriptions(), lines 267-280, on the second thread: the POST is
\* sent with no lock held; a failure that is no abort leaves the call
Rt2SubmitPost ==
    /\ ~rtCrashed
    /\ rtApp2.pc = "post"
    /\ rtPost' = [sent |-> TRUE, clientId |-> rtClientId,
                  subs |-> rtApp2.active]
    /\ \E r \in PostResults :
          rtApp2' = [rtApp2 EXCEPT !.pc = IF r = "error" THEN "idle"
                                          ELSE "empty",
                                   !.active = {}]
    /\ UNCHANGED <<rtSubs, rtClientId, rtReady, rtStop, rtMutex, rtApp, rtW,
                   rtHookSet, rtClosures, rtOps, rtCrashed>>
    /\ UNCHANGED <<psVars, obsVars, pWhole, pFed, pReads, pSt, auth, sentAuth,
                   pConn, p2, auth2>>

\* unsubscribe(), lines 47-49, on the second thread, for a registry that is
\* not empty: the call returns
Rt2CheckEmpty ==
    /\ ~rtCrashed
    /\ rtApp2.pc = "empty"
    /\ DOMAIN rtSubs # {}
    /\ rtApp2' = [rtApp2 EXCEPT !.pc = "idle"]
    /\ UNCHANGED <<rtVars, psVars, obsVars, pWhole, pFed, pReads, pSt, auth,
                   sentAuth, pConn, p2, auth2>>

\* a connected service: "ab/x" is registered and was POSTed by the worker
\* for the PB_CONNECT frame, the stream is open
RtConnectedInit ==
    /\ rtSubs = (T2 :> <<[id |-> 1, type |-> "X", does |-> "return"]>>)
    /\ rtClientId = "c1"
    /\ rtReady = TRUE
    /\ rtStop = FALSE
    /\ rtMutex = FreeMutex
    /\ rtApp = IdleApp
    /\ rtW = RtStreaming
    /\ rtPost = [sent |-> TRUE, clientId |-> "c1", subs |-> {T2}]
    /\ rtHookSet \in BOOLEAN
    /\ rtClosures = {}
    /\ rtOps = 1
    /\ rtCrashed = FALSE
    /\ PsInit /\ ObsInit /\ AuxInit

\* both threads subscribe to and unsubscribe from "a/x" while the stream
\* stays open; "ab/x" stays registered
SpecRTThreads ==
    RtConnectedInit
    /\ [][\/ \E f \in PlainCallables : RtCallSubscribe(T1, f.type, f.does)
          \/ RtWaitReady \/ RtSubmitCheck \/ RtSubmitPost \/ RtUnwind
          \/ RtSubscribeReturn \/ RtCallUnsubscribe(T1) \/ RtCheckEmpty
          \/ Rt2CallUnsubscribe(T1) \/ Rt2SubmitCheck \/ Rt2SubmitPost
          \/ Rt2CheckEmpty]_vars

\* C33: when no call of either thread is in progress, the POST sent last
\* carries the topics that are registered.
C33_LastPostIsCurrent ==
    (rtApp.pc = "idle" /\ rtApp2.pc = "idle")
        => rtPost.subs = ActiveTopics(rtSubs)

(***************************************************************************)
(* Removal while an event is being dispatched.                             *)
(***************************************************************************)
\* C34: when an unsubscribe call or a closure returns on the application
\* thread, the background thread holds no listener still to be invoked
\* that is no longer registered: every listener that the dispatch loop in
\* progress has yet to invoke is in the registry.
C34_RemovedNotInvoked ==
    [][/\ (/\ rtApp.kind \in {"unsubscribe", "unsubscribeAll",
                              "unsubscribeByPrefix", "closure"}
           /\ rtApp.pc # "idle" /\ rtApp.pc # "thrown" /\ rtApp'.pc = "idle")
          => (rtW.pc = "e_call"
                => \A k \in rtW.i .. Len(rtW.listeners) :
                      /\ rtW.topic \in DOMAIN rtSubs'
                      /\ \E j \in 1 .. Len(rtSubs'[rtW.topic]) :
                            rtSubs'[rtW.topic][j] = rtW.listeners[k])
       /\ (/\ psApp.kind \in {"unsubscribe", "unsubscribeAll", "closure"}
           /\ psApp.pc # "idle" /\ psApp'.pc = "idle" /\ psApp'.res = "ok")
          => (psIo.pc = "msg_call"
                => \A k \in psIo.i .. Len(psIo.listeners) :
                      /\ psIo.topic \in DOMAIN psSubs'
                      /\ \E j \in 1 .. Len(psSubs'[psIo.topic]) :
                            psSubs'[psIo.topic][j] = psIo.listeners[k])]_vars

(***************************************************************************)
(* A closure invoked again.                                                *)
(***************************************************************************)
\* subscribe("a/x", f) has returned its closure and the closure was invoked
\* once: the registry is empty and disconnect() has joined the worker.  The
\* calls are counted from that subscribe.
RtClosureUsedInit ==
    /\ rtSubs = EmptySubs
    /\ rtClientId = ""
    /\ rtReady = FALSE
    /\ rtStop = TRUE
    /\ rtMutex = FreeMutex
    /\ rtApp = IdleApp
    /\ rtW = NoWorker
    /\ rtPost = [sent |-> TRUE, clientId |-> "c1", subs |-> {T1}]
    /\ rtHookSet \in BOOLEAN
    /\ rtClosures = {<<T1, [id |-> 1, type |-> "X", does |-> "return"]>>}
    /\ rtOps = 1
    /\ rtCrashed = FALSE
    /\ PsInit /\ ObsInit /\ AuxInit

\* further subscribe calls for "a/x" and further invocations of the
\* closures, with the connection life cycle
SpecClosureAgain ==
    RtClosureUsedInit
    /\ [][\/ \E f \in PlainCallables : RtCallSubscribe(T1, f.type, f.does)
          \/ \E l \in AllListeners : RtCallClosure(<<T1, l>>)
          \/ RtWaitReady \/ RtWaitTimeout \/ RtUnwind \/ RtSubmitCheck
          \/ RtSubmitPost \/ RtSubscribeReturn \/ RtCheckEmpty
          \/ RtDisconnectStop \/ RtDisconnectReady \/ RtJoin
          \/ RtConnNext]_vars

\* C35: a closure invoked when the listener of its subscribe call is no
\* longer registered, as on its second invocation, leaves the registry as
\* it is, whatever was registered on its topic in between.
C35_ClosureIdempotent ==
    [][(/\ rtApp.pc = "idle" /\ rtOps' = rtOps + 1
        /\ \E c \in rtClosures :
              /\ rtApp'.kind = "closure" /\ rtApp'.topic = c[1]
              /\ rtApp'.lis = c[2]
              /\ \A k \in 1 .. Len(rtSubs[c[1]]) : rtSubs[c[1]][k] # c[2])
          => rtSubs' = rtSubs]_vars

(***************************************************************************)
(* The SSE parser over several streams.                                    *)
(***************************************************************************)
MaxTail == 2
MaxReconnects == 1

\* run(), lines 175-211: the stream ends after the bytes read so far and
\* the loop opens the next one, whose bytes are w.  buffer, eventName, data
\* and id are statics of realtimeWrite (lines 115, 131-133): nothing in
\* run() touches them.  frames restarts: the frames of the new connection.
ParseReconnect(w) ==
    /\ pConn < MaxReconnects
    /\ pConn' = pConn + 1
    /\ pWhole' = w
    /\ pFed' = 0
    /\ pReads' = 0
    /\ pSt' = [pSt EXCEPT !.frames = <<>>]
    /\ UNCHANGED <<auth, sentAuth, rtApp2, p2, auth2, rtVars, psVars, obsVars>>

\* streams of up to MaxTail bytes, read in any pieces, one after the other
ParseStreamsInit ==
    /\ RtInit /\ PsInit /\ ObsInit /\ MoreInit
    /\ pWhole \in {x \in Streams : Len(x) <= MaxTail}
    /\ pFed = 0 /\ pReads = 0 /\ pSt = ParserStart
    /\ auth = AuthIdle /\ sentAuth = ""

SpecParseStreams ==
    ParseStreamsInit
    /\ [][\/ \E n \in 1 .. MaxTail : ParseRead(n)
          \/ \E w \in {x \in Streams : Len(x) <= MaxTail} : ParseReconnect(w)
         ]_vars

\* C36: the frames emitted on a connection are those of its own bytes,
\* parsed from an empty buffer and empty accumulators.
C36_FreshParserPerConnection ==
    pSt.frames = realtimeWrite(ParserStart, SubSeq(pWhole, 1, pFed)).frames

\* ------------------------------------------------------------------
\* Two services in one process.  realtimeWrite is a static member
\* (realtime.cpp:112); self, taken from userdata (line 113), is the only
\* thing of the call that belongs to one service.  buffer, eventName, data
\* and id (lines 115, 131-133) are function-local statics: one copy for
\* every service.  p2 is the second service's connection: its bytes, how
\* many were read, and the frames handed to its handleEvent.

\* realtimeWrite called on the second service's thread with its next n
\* bytes: the statics are read and left as any call leaves them, the frames
\* go to self->handleEvent (lines 143-146), here the second service.
\* Calls are taken one at a time; two calls that overlap race on the
\* statics without a lock, which only adds outcomes to these.
Parse2Read(n) ==
    /\ p2.fed + n <= Len(p2.whole)
    /\ LET r == realtimeWrite([pSt EXCEPT !.frames = p2.frames],
                              SubSeq(p2.whole, p2.fed + 1, p2.fed + n))
       IN  /\ p2' = [p2 EXCEPT !.fed = p2.fed + n, !.frames = r.frames]
           /\ pSt' = [r EXCEPT !.frames = pSt.frames]
    /\ UNCHANGED <<pWhole, pFed, pReads, auth, sentAuth, pConn, rtApp2, auth2,
                   rtVars, psVars, obsVars>>

\* each service has a stream of up to MaxTail bytes ahead of it
ParseTwoInit ==
    /\ RtInit /\ PsInit /\ ObsInit
    /\ pWhole \in {x \in Streams : Len(x) <= MaxTail}
    /\ pFed = 0 /\ pReads = 0 /\ pSt = ParserStart
    /\ auth = AuthIdle /\ sentAuth = ""
    /\ pConn = 0
    /\ rtApp2 = [pc |-> "idle", topic |-> <<>>, active |-> {}, calls |-> 0]
    /\ p2 \in {[whole |-> x, fed |-> 0, frames |-> <<>>] :
                   x \in {y \in Streams : Len(y) <= MaxTail}}
    /\ auth2 = [arg |-> <<>>, callbacks |-> <<>>, i |-> 0, notified |-> <<>>]

SpecParseTwo ==
    ParseTwoInit
    /\ [][\/ \E n \in 1 .. MaxTail : ParseRead(n)
          \/ \E n \in 1 .. MaxTail : Parse2Read(n)
         ]_vars

\* C37: the frames handed to each of two services are those of the bytes
\* read on its own connection, whatever the other service has read.
C37_InstancesIndependent ==
    /\ pSt.frames = realtimeWrite(ParserStart, SubSeq(pWhole, 1, pFed)).frames
    /\ p2.frames = realtimeWrite(ParserStart, SubSeq(p2.whole, 1, p2.fed)).frames

\* C38: whenever isConnected() is true, clientId() is not empty, whatever
\* the PB_CONNECT payload was (ClientIds has the payload without a
\* clientId field, read as "" by line 229).
C38_ConnectedHasClientId ==
    rtReady => rtClientId # ""

\* C39: a failure on the background thread that no application call
\* triggered stays on that thread: after the POST that PB_CONNECT triggers
\* (lines 227-231, 270-281) and after the disconnect hook that follows a
\* stream termination (lines 213-224) the thread function is still running.
C39_WorkerFailureContained ==
    [][/\ (rtW.pc = "h_post" /\ rtW' # rtW) => ~rtCrashed'
       /\ (rtW.pc = "w_hcall" /\ rtW' # rtW) => ~rtCrashed']_vars

\* ------------------------------------------------------------------
\* Two threads that call save().  The first is the caller of AuthSaveBegin,
\* AuthSaveEnd and AuthNotify; auth2 is the call of the second: its
\* arguments, its copy of the listeners, the position of its loop and what
\* its invocations were given.

\* save(), lines 23-29, on the second thread: with the lock, token_ and
\* record_ are assigned and the listeners copied; the lock orders this
\* block against the first thread's
Auth2SaveBegin(tok, rec) ==
    /\ auth2.i = 0
    /\ auth.write = <<>>
    /\ auth' = [auth EXCEPT !.token = tok, !.record = rec]
    /\ auth2' = [arg |-> <<tok, rec>>,
                 callbacks |-> auth.listeners,
                 i |-> IF auth.listeners = <<>> THEN 0 ELSE 1,
                 notified |-> <<>>]
    /\ UNCHANGED <<rtVars, psVars, obsVars, pWhole, pFed, pReads, pSt, sentAuth,
                   pConn, rtApp2, p2>>

\* save(), lines 31-36, on the second thread: cb(token_, record_) passes
\* the members, read without the lock (the parameters token and record are
\* not used).  A read that meets the first thread's assignment of lines
\* 26-27 races with it: the old value, the new one, or neither.
Auth2Notify ==
    /\ auth2.i > 0
    /\ LET cb == auth2.callbacks[auth2.i]
       IN \E tk \in IF auth.write = <<>> THEN {auth.token}
                    ELSE {auth.token, auth.write[1], "torn"},
             rc \in IF auth.write = <<>> THEN {auth.record}
                    ELSE {auth.record, auth.write[2], "torn"} :
            auth2' = [auth2 EXCEPT
               !.notified = Append(@, <<cb.id, tk, rc>>),
               !.i = IF auth2.i = Len(auth2.callbacks) THEN 0 ELSE @ + 1]
    /\ UNCHANGED <<rtVars, psVars, obsVars, pWhole, pFed, pReads, pSt, sentAuth,
                   auth, pConn, rtApp2, p2>>

SpecAuthSavers ==
    Init
    /\ [][\/ \E does \in {"return", "throw"} : AuthAddListener(does)
          \/ \E tok \in {"t1", "t2"}, rec \in {"none", "r1"} :
                AuthSaveBegin(tok, rec)
          \/ AuthSaveEnd
          \/ AuthNotify
          \/ \E tok \in {"t1", "t2"}, rec \in {"none", "r1"} :
                Auth2SaveBegin(tok, rec)
          \/ Auth2Notify
         ]_vars

\* C40: every listener invocation made by a call save(t, r) is given t and
\* r, whatever another save() running at the same time has written.
C40_ListenerGetsOwnArguments ==
    \A k \in 1 .. Len(auth2.notified) :
       /\ auth2.notified[k][2] = auth2.arg[1]
       /\ auth2.notified[k][3] = auth2.arg[2]

====
